---- MODULE Spec2Model ----
(***************************************************************************)
(* Symbolic circuits, pipeline ordering, the pipeline compiler, the        *)
(* operator registry and the pipeline context of cirkit.                   *)
(*                                                                         *)
(* Circuits and layers are Python objects compared by identity; here a     *)
(* circuit is a number in DOMAIN circuits and a layer of a circuit is a   *)
(* number naming the layer object inside its circuit.  Indices stored in   *)
(* the compiled artifacts (layer ids, bookkeeping) are 0-based as in the   *)
(* code; TLA+ sequences are 1-based, so entry i of a Python list is        *)
(* element i+1 of the sequence.                                            *)
(***************************************************************************)
EXTENDS Integers, Sequences, FiniteSets, TLC

\* Number of circuits of a pipeline.
NumCircuits == 2

\* Largest number of layers of a directly constructed circuit (SpecLayers).
MaxLayers == 3

\* How often compile_circuit may lower the same circuit into one context.
MaxLowerings == 1

VARIABLES
    circuits,   \* the SymbCircuit objects: circuits[c] is circuit c
    ctx,        \* the PipelineContext the caller holds
    lowerings,  \* per circuit, how often it was lowered and registered in ctx
    registry,   \* an OperatorRegistry (its _rules) and the rule function at hand
    ambient,    \* the context variable of the operator registry and its users
    iterators,  \* the layer-view iterator the caller holds, if any
    ret         \* what the last call returned or raised

vars == <<circuits, ctx, lowerings, registry, ambient, iterators, ret>>

Range(s) == {s[i] : i \in DOMAIN s}

\* no OperatorRegistry has been constructed
NoRegistry == <<>>

\* the context variable has not been used
NoAmbient == <<>>

\* Every order in which iterating a Python set S may yield its elements.
IterationOrders(S) ==
    {s \in [1..Cardinality(S) -> S] : \A i, j \in DOMAIN s : i # j => s[i] # s[j]}

\* d[k] = v on a dict d.
Put(d, k, v) == [x \in DOMAIN d \cup {k} |-> IF x = k THEN v ELSE d[x]]

----------------------------------------------------------------------------
(***************************************************************************)
(* cirkit.utils.algorithms.topological_ordering(roots, incomings_fn):      *)
(* Kahn's algorithm.  The nodes reachable from the roots are discovered    *)
(* breadth first, counting for each node its incoming edges and recording  *)
(* for each node the nodes it feeds; nodes without incoming edges are      *)
(* emitted first, in discovery order, and a node is emitted once all of    *)
(* its incoming edges have been removed.  The result is None when a        *)
(* discovered node keeps a nonzero count (a cycle).  incomings_fn is a     *)
(* function inc; a node outside DOMAIN inc makes incomings_fn raise        *)
(* KeyError (a dict lookup).                                               *)
(***************************************************************************)
RECURSIVE AddEdges(_, _, _)
AddEdges(st, n, chs) ==
    IF chs = <<>> THEN st
    ELSE LET ch == Head(chs)
             st1 == [st EXCEPT !.num[n] = @ + 1,
                               !.out[ch] = Append(@, n),
                               !.seen = @ \cup {ch},
                               !.queue = IF ch \in st.seen THEN @ ELSE Append(@, ch)]
         IN  AddEdges(st1, n, Tail(chs))

RECURSIVE Discover(_, _)
Discover(st, inc) ==
    IF st.err \/ st.queue = <<>> THEN st
    ELSE LET n    == Head(st.queue)
             rest == [st EXCEPT !.queue = Tail(@)]
         IN  IF n \notin DOMAIN inc THEN [rest EXCEPT !.err = TRUE]
             ELSE IF inc[n] = <<>>
                  THEN Discover([rest EXCEPT !.inputs = Append(@, n)], inc)
                  ELSE Discover(AddEdges(rest, n, inc[n]), inc)

RECURSIVE RemoveEdges(_, _)
RemoveEdges(st, outs) ==
    IF outs = <<>> THEN st
    ELSE LET o   == Head(outs)
             st1 == [st EXCEPT !.num[o] = @ - 1,
                               !.toVisit = IF st.num[o] = 1 THEN Append(@, o) ELSE @]
         IN  RemoveEdges(st1, Tail(outs))

RECURSIVE KahnLoop(_)
KahnLoop(st) ==
    IF st.toVisit = <<>> THEN st
    ELSE LET n   == Head(st.toVisit)
             st1 == [st EXCEPT !.toVisit = Tail(@), !.ordering = Append(@, n)]
         IN  KahnLoop(RemoveEdges(st1, st.out[n]))

topological_ordering(rootSeq, nodes, inc) ==
    LET d == Discover([queue  |-> rootSeq,
                       seen   |-> Range(rootSeq),
                       num    |-> [n \in nodes |-> 0],
                       out    |-> [n \in nodes |-> <<>>],
                       inputs |-> <<>>,
                       err    |-> FALSE], inc)
    IN  IF d.err THEN [tag |-> "KeyError", ordering |-> <<>>]
        ELSE LET k == KahnLoop([toVisit |-> d.inputs, ordering |-> <<>>,
                                num |-> d.num, out |-> d.out])
             IN  IF \E n \in d.seen : k.num[n] # 0
                 THEN [tag |-> "None", ordering |-> <<>>]
                 ELSE [tag |-> "ok", ordering |-> k.ordering]

----------------------------------------------------------------------------
(***************************************************************************)
(* Symbolic layers.  A layer object carries its class (kind), scope, unit  *)
(* counts, the layers it reads (inputs) and its provenance (operation):    *)
(* None, or the operator that produced it with its operand layers.  A      *)
(* layer of another circuit is named <<circuit, layer>>.                   *)
(***************************************************************************)
InputKinds == {"Categorical", "Constant"}

NoLayerOperation == [isNone |-> TRUE, operator |-> "NONE", operands |-> <<>>]

LayerOperation(operator, operands) ==
    [isNone |-> FALSE, operator |-> operator, operands |-> operands]

SymbLayer(kind, scope, num_units, num_channels, inputs, op) ==
    [kind |-> kind, scope |-> scope, num_units |-> num_units,
     num_channels |-> num_channels, inputs |-> inputs, operation |-> op]

\* isinstance(layer, SymbInputLayer)
IsInputLayer(layer) == layer.kind \in InputKinds

\* isinstance(layer, SymbSumLayer): a SymbMixingLayer is a SymbSumLayer
IsSumLayer(layer) == layer.kind \in {"Sum", "Mixing"}

\* isinstance(layer, SymbProdLayer)
IsProdLayer(layer) == layer.kind \in {"Hadamard", "Kronecker"}

(***************************************************************************)
(* Symbolic circuits.  in_layers and out_layers are dicts keyed by layer;  *)
(* a value of out_layers is a list of layers or, where the code stores     *)
(* one, a bare layer object.  out_default says that out_layers is a        *)
(* defaultdict(list), whose lookup of a missing key inserts [] for it.     *)
(***************************************************************************)
NoOperation == [isNone |-> TRUE, operands |-> <<>>]

OperationOn(ops) == [isNone |-> FALSE, operands |-> ops]

ListValue(list) == [isList |-> TRUE, list |-> list, layer |-> 0]

LayerValue(layer) == [isList |-> FALSE, list |-> <<>>, layer |-> layer]

\* bool(v) of a value of out_layers: a list is true when it is not empty,
\* a layer object is always true.
Truthy(v) == IF v.isList THEN v.list # <<>> ELSE TRUE

\* SymbCircuit.__init__
SymbCircuit(scope, layers, layerObj, in_layers, out_layers, out_default, op) ==
    [operation |-> op, scope |-> scope, layers |-> layers, layerObj |-> layerObj,
     in_layers |-> in_layers, out_layers |-> out_layers,
     out_default |-> out_default]

EmptyCircuit(op) == SymbCircuit({}, <<>>, <<>>, <<>>, <<>>, FALSE, op)

(***************************************************************************)
(* Region graphs: the nodes in topological order; a node is a region or a  *)
(* partition with its scope and its inputs (positions in the node list);   *)
(* output_nodes are the regions no partition reads.                        *)
(***************************************************************************)
Region(scope, inputs) == [kind |-> "region", scope |-> scope, inputs |-> inputs]

Partition(scope, inputs) == [kind |-> "partition", scope |-> scope, inputs |-> inputs]

RegionGraph(nodes) ==
    [nodes |-> nodes,
     output_nodes |-> {i \in DOMAIN nodes :
                          /\ nodes[i].kind = "region"
                          /\ \A j \in DOMAIN nodes : i \notin Range(nodes[j].inputs)}]

\* one leaf region
RGLeaf == RegionGraph(<<Region({0}, <<>>)>>)

\* two leaves, one partition, one root region
RGPair ==
    RegionGraph(<<Region({0}, <<>>), Region({1}, <<>>),
                  Partition({0, 1}, <<1, 2>>), Region({0, 1}, <<3>>)>>)

\* a root region partitioned in two ways
RGMix ==
    RegionGraph(<<Region({0}, <<>>), Region({1}, <<>>), Region({2}, <<>>),
                  Partition({0, 1}, <<1, 2>>), Region({0, 1}, <<4>>),
                  Partition({1, 2}, <<2, 3>>), Region({1, 2}, <<6>>),
                  Partition({0, 1, 2}, <<5, 3>>), Partition({0, 1, 2}, <<1, 7>>),
                  Region({0, 1, 2}, <<8, 9>>)>>)

RegionGraphs == {RGLeaf, RGPair, RGMix}

\* the layers of the inputs of a node, last input first
LayersOfInputsReversed(rgn_to_layers, rgn) ==
    [k \in DOMAIN rgn.inputs |->
        rgn_to_layers[rgn.inputs[Len(rgn.inputs) + 1 - k]]]

\* [rgn_to_layers[rgn_in] for rgn_in in rgn.inputs]
LayersOfInputs(rgn_to_layers, rgn) ==
    [k \in DOMAIN rgn.inputs |-> rgn_to_layers[rgn.inputs[k]]]

\* for in_sl in inputs: out_layers[in_sl] = sl
RECURSIVE AssignOut(_, _, _)
AssignOut(out_layers, inputs, sl) ==
    IF inputs = <<>> THEN out_layers
    ELSE AssignOut(Put(out_layers, Head(inputs), LayerValue(sl)), Tail(inputs), sl)

(***************************************************************************)
(* SymbCircuit.from_region_graph: one pass over the nodes.  The state of   *)
(* the loop is the code's locals; a new layer object is named by the       *)
(* number of layer objects created before it, plus one.  The factories     *)
(* build a layer of their class from the arguments they are given.         *)
(***************************************************************************)
RECURSIVE FromRegionGraphLoop(_, _, _)
FromRegionGraphLoop(rg, i, st) ==
    IF i > Len(rg.nodes) THEN st
    ELSE
      LET rgn == rg.nodes[i]
          new == Cardinality(DOMAIN st.layerObj) + 1
      IN
      IF rgn.kind = "region" /\ rgn.inputs = <<>> THEN
        LET input_sl == new
            sum_sl   == new + 1
            nsu == IF i \in rg.output_nodes THEN st.num_classes ELSE st.num_sum_units
            input_obj == SymbLayer("Categorical", rgn.scope, st.num_input_units,
                                   st.num_channels, <<>>, NoLayerOperation)
            sum_obj   == SymbLayer("Sum", rgn.scope, nsu, 0, <<>>, NoLayerOperation)
        IN  FromRegionGraphLoop(rg, i + 1,
              [st EXCEPT !.num_sum_units = nsu,
                         !.layers = @ \o <<input_sl, sum_sl>>,
                         !.layerObj = Put(Put(@, input_sl, input_obj), sum_sl, sum_obj),
                         !.in_layers = Put(@, sum_sl, <<input_sl>>),
                         !.out_layers = Put(@, input_sl, ListValue(<<sum_sl>>)),
                         !.rgn_to_layers = Put(@, i, sum_sl)])
      ELSE IF rgn.kind = "partition" THEN
        LET prod_inputs == LayersOfInputs(st.rgn_to_layers, rgn)
            prod_sl  == new
            prod_obj == SymbLayer("Hadamard", rgn.scope, st.num_sum_units, 0, <<>>,
                                  NoLayerOperation)
        IN  FromRegionGraphLoop(rg, i + 1,
              [st EXCEPT !.layers = Append(@, prod_sl),
                         !.layerObj = Put(@, prod_sl, prod_obj),
                         !.in_layers = Put(@, prod_sl, prod_inputs),
                         !.out_layers = AssignOut(@, prod_inputs, prod_sl),
                         !.rgn_to_layers = Put(@, i, prod_sl)])
      ELSE
        LET sum_inputs == LayersOfInputs(st.rgn_to_layers, rgn)
            nsu == IF i \in rg.output_nodes THEN st.num_classes ELSE st.num_sum_units
            sum_sl  == new
            sum_obj == SymbLayer(IF Len(sum_inputs) = 1 THEN "Sum" ELSE "Mixing",
                                 rgn.scope, nsu, 0, <<>>, NoLayerOperation)
        IN  FromRegionGraphLoop(rg, i + 1,
              [st EXCEPT !.num_sum_units = nsu,
                         !.layers = Append(@, sum_sl),
                         !.layerObj = Put(@, sum_sl, sum_obj),
                         !.in_layers = Put(@, sum_sl, sum_inputs),
                         !.out_layers = AssignOut(@, sum_inputs, sum_sl),
                         !.rgn_to_layers = Put(@, i, sum_sl)])

RegionGraphScope(rg) == UNION {rg.nodes[i].scope : i \in DOMAIN rg.nodes}

\* from_region_graph that builds a plain sum layer for every inner region
from_region_graph_plain(rg, num_channels, num_input_units, num_sum_units, num_classes) ==
    LET st == FromRegionGraphLoop(rg, 1,
                [layers |-> <<>>, layerObj |-> <<>>, in_layers |-> <<>>,
                 out_layers |-> <<>>, rgn_to_layers |-> <<>>,
                 num_channels |-> num_channels, num_input_units |-> num_input_units,
                 num_sum_units |-> num_sum_units, num_classes |-> num_classes])
    IN  SymbCircuit(RegionGraphScope(rg), st.layers,
                    [l \in DOMAIN st.layerObj |->
                        IF st.layerObj[l].kind = "Mixing"
                        THEN [st.layerObj[l] EXCEPT !.kind = "Sum"]
                        ELSE st.layerObj[l]],
                    st.in_layers, st.out_layers, TRUE, NoOperation)

\* SymbCircuit.from_region_graph(region_graph, input_factory, sum_factory,
\* prod_factory, num_channels, num_input_units, num_sum_units, num_classes)
from_region_graph(rg, num_channels, num_input_units, num_sum_units, num_classes) ==
    LET st == FromRegionGraphLoop(rg, 1,
                [layers |-> <<>>, layerObj |-> <<>>, in_layers |-> <<>>,
                 out_layers |-> <<>>, rgn_to_layers |-> <<>>,
                 num_channels |-> num_channels, num_input_units |-> num_input_units,
                 num_sum_units |-> num_sum_units, num_classes |-> num_classes])
    IN  SymbCircuit(RegionGraphScope(rg), st.layers, st.layerObj, st.in_layers,
                    st.out_layers, TRUE, NoOperation)

----------------------------------------------------------------------------
(***************************************************************************)
(* Layer views and the layer ordering of a circuit.                        *)
(***************************************************************************)
\* self._out_layers[layer]: a defaultdict answers [] for a missing key
OutLookup(sc, layer) ==
    IF layer \in DOMAIN sc.out_layers THEN sc.out_layers[layer] ELSE ListValue(<<>>)

\* out_layers once output_layers has been iterated: the defaultdict has
\* inserted [] for every layer that had no key.
OutLayersAfterRead(sc) ==
    IF sc.out_default
    THEN [l \in DOMAIN sc.out_layers \cup Range(sc.layers) |-> OutLookup(sc, l)]
    ELSE sc.out_layers

\* output_layers that takes only a non-empty list for outgoing edges
output_layers_listed(sc) ==
    [tag |-> "ok",
     list |-> SelectSeq(sc.layers,
                        LAMBDA l : ~(OutLookup(sc, l).isList
                                       /\ OutLookup(sc, l).list # <<>>))]

\* SymbCircuit.output_layers, iterated to the end
output_layers(sc) ==
    IF ~sc.out_default /\ \E l \in Range(sc.layers) : l \notin DOMAIN sc.out_layers
    THEN [tag |-> "KeyError", list |-> <<>>]
    ELSE [tag |-> "ok",
          list |-> SelectSeq(sc.layers, LAMBDA l : ~Truthy(OutLookup(sc, l)))]

\* SymbCircuit.input_layers
input_layers(sc) == SelectSeq(sc.layers, LAMBDA l : IsInputLayer(sc.layerObj[l]))

layers_topological_ordering_outputs_only(sc, rootSeq) ==
    [tag |-> "ok", ordering |-> rootSeq]

\* SymbCircuit.layers_topological_ordering; rootSeq is the order in which
\* set(self.output_layers) is iterated.
layers_topological_ordering(sc, rootSeq) ==
    LET ordering == topological_ordering(rootSeq, DOMAIN sc.layerObj, sc.in_layers)
    IN  IF ordering.tag = "None"
        THEN [tag |-> "ValueError", ordering |-> <<>>]
        ELSE ordering

----------------------------------------------------------------------------
(***************************************************************************)
(* Circuits constructed directly, SymbCircuit(scope, layers, in_layers,    *)
(* out_layers): every layer has a key in both dicts and out_layers is the  *)
(* inverse of in_layers.                                                   *)
(***************************************************************************)
\* the layers that read layer p, in layer order
Readers(layers, in_layers, p) ==
    SelectSeq(layers, LAMBDA l : p \in Range(in_layers[l]))

DirectCircuit(scope, layers, layerObj, op) ==
    LET in_layers == [l \in DOMAIN layerObj |-> layerObj[l].inputs]
    IN  SymbCircuit(scope, layers, layerObj, in_layers,
                    [l \in DOMAIN layerObj |-> ListValue(Readers(layers, in_layers, l))],
                    FALSE, op)

\* lists of at most two distinct layers
InputLists(L) == {<<>>} \cup {<<a>> : a \in L}
                        \cup {t \in L \X L : t[1] # t[2]}

\* the class of a layer with the given inputs
KindFor(inputs) ==
    CASE Len(inputs) = 0 -> "Categorical"
      [] Len(inputs) = 1 -> "Sum"
      [] OTHER           -> "Hadamard"

LayerList(n) == [i \in 1..n |-> i]

DirectCircuits(n) ==
    {DirectCircuit({0}, LayerList(n),
                   [l \in 1..n |-> SymbLayer(KindFor(ins[l]), {0}, 1, 1, ins[l],
                                             NoLayerOperation)],
                   NoOperation) : ins \in [1..n -> InputLists(1..n)]}

----------------------------------------------------------------------------
\* The record of a call: its arguments (roots or circuit), how it ended
\* (tag: "ok" or the error raised) and, for the compiler, the context on
\* entry (ctx0) and on exit (ctx1), the circuits lowered by the call in
\* order, and where a lowering failed (circuit, position in its layer list).
CallRecord(op, roots, circuit, tag, ordering, ctx0, ctx1, lowered, failed, failedAt) ==
    [op |-> op, roots |-> roots, circuit |-> circuit, tag |-> tag,
     ordering |-> ordering, ctx0 |-> ctx0, ctx1 |-> ctx1, lowered |-> lowered,
     failed |-> failed, failedAt |-> failedAt]

Ret(op, roots, circuit, tag, ordering) ==
    CallRecord(op, roots, circuit, tag, ordering, <<>>, <<>>, <<>>, 0, -1)

NoCall == Ret("none", {}, 0, "none", <<>>)

(***************************************************************************)
(* SpecTopo: pipelines of NumCircuits circuits with every choice of        *)
(* operations; pipeline_topological_ordering is called on sets of roots.   *)
(***************************************************************************)
\* integrate and differentiate take one circuit, multiply takes two.
OperandTuples(C) == {<<a>> : a \in C} \cup {<<a, b>> : a \in C, b \in C}

Operations(C) == {NoOperation} \cup {OperationOn(t) : t \in OperandTuples(C)}

PipelineIncomingsNone(sc) == <<>>

\* lambda sc: () if sc.operation is None else sc.operation.operands
PipelineIncomings(sc) ==
    IF circuits[sc].operation.isNone THEN <<>> ELSE circuits[sc].operation.operands

pipeline_topological_ordering_silent(rootSeq) ==
    topological_ordering(rootSeq, DOMAIN circuits,
                         [sc \in DOMAIN circuits |-> PipelineIncomings(sc)])

\* pipeline_topological_ordering with the list turned round: every circuit
\* before its operands
pipeline_topological_ordering_reversed(rootSeq) ==
    LET ordering == topological_ordering(rootSeq, DOMAIN circuits,
                        [sc \in DOMAIN circuits |-> PipelineIncomings(sc)])
    IN  IF ordering.tag = "None"
        THEN [tag |-> "ValueError", ordering |-> <<>>]
        ELSE [ordering EXCEPT
                 !.ordering = [i \in DOMAIN @ |-> @[Len(@) + 1 - i]]]

pipeline_topological_ordering(rootSeq) ==
    LET ordering == topological_ordering(rootSeq, DOMAIN circuits,
                        [sc \in DOMAIN circuits |-> PipelineIncomings(sc)])
    IN  IF ordering.tag = "None"
        THEN [tag |-> "ValueError", ordering |-> <<>>]
        ELSE ordering

InitTopo ==
    /\ \E ops \in [1..NumCircuits -> Operations(1..NumCircuits)] :
          circuits = [c \in 1..NumCircuits |-> EmptyCircuit(ops[c])]
    /\ ctx = <<>>
    /\ lowerings = <<>>
    /\ iterators = <<>>
    /\ registry = NoRegistry
    /\ ambient = NoAmbient
    /\ ret = NoCall

\* A call of pipeline_topological_ordering(roots); roots is a Python set.
PipelineTopologicalOrdering ==
    \E roots \in SUBSET DOMAIN circuits :
      \E rootSeq \in IterationOrders(roots) :
        /\ LET r == pipeline_topological_ordering(rootSeq)
           IN  ret' = Ret("pipeline_topological_ordering", roots, 0, r.tag, r.ordering)
        /\ UNCHANGED <<circuits, ctx, lowerings, registry, ambient, iterators>>

NextTopo == PipelineTopologicalOrdering

SpecTopo == InitTopo /\ [][NextTopo]_vars

(***************************************************************************)
(* SpecLayers: one circuit, built from a region graph or constructed       *)
(* directly; layers_topological_ordering is called on it.                  *)
(***************************************************************************)
UnitCounts == {1, 2}

InitLayers ==
    /\ \E sc \in {from_region_graph(rg, 1, 1, nsu, ncl) :
                     rg \in RegionGraphs, nsu \in UnitCounts, ncl \in UnitCounts}
                 \cup UNION {DirectCircuits(n) : n \in 1..MaxLayers} :
          circuits = <<sc>>
    /\ ctx = <<>>
    /\ lowerings = <<>>
    /\ iterators = <<>>
    /\ registry = NoRegistry
    /\ ambient = NoAmbient
    /\ ret = NoCall

LayersTopologicalOrdering ==
    \E c \in DOMAIN circuits :
      LET sc   == circuits[c]
          outs == output_layers(sc)
      IN  /\ circuits' = [circuits EXCEPT ![c].out_layers = OutLayersAfterRead(sc)]
          /\ UNCHANGED <<ctx, lowerings, registry, ambient, iterators>>
          /\ IF outs.tag # "ok"
             THEN ret' = Ret("layers_topological_ordering", {}, c, outs.tag, <<>>)
             ELSE \E rootSeq \in IterationOrders(Range(outs.list)) :
                    LET r == layers_topological_ordering(sc, rootSeq)
                    IN  ret' = Ret("layers_topological_ordering", Range(outs.list), c,
                                   r.tag, r.ordering)

NextLayers == LayersTopologicalOrdering

SpecLayers == InitLayers /\ [][NextLayers]_vars

----------------------------------------------------------------------------
(***************************************************************************)
(* PipelineContext (cirkit.tensorized.compilers): per symbolic circuit the *)
(* materialized circuit registered for it, i.e. its executable layers and  *)
(* bookkeeping, and the map from its symbolic layers to layer ids.         *)
(*                                                                         *)
(* A parameter object (reparam) is named by the lowering that created it:  *)
(* the circuit, the layer, and the number of that lowering of the circuit  *)
(* in this context.  Two layers hold the same object exactly when the      *)
(* names are equal.  Objects created by a lowering that failed are         *)
(* unreachable, so their names are used again.                             *)
(***************************************************************************)
Param(c, l, g) == [circuit |-> c, layer |-> l, lowering |-> g]

NoParam == Param(0, 0, 0)

ExecLayer(cls, num_input_units, num_output_units, arity, reparam) ==
    [cls |-> cls, num_input_units |-> num_input_units,
     num_output_units |-> num_output_units, arity |-> arity, reparam |-> reparam]

NoLayer == ExecLayer("none", 0, 0, 0, NoParam)

NoEntry == [present |-> FALSE, layers |-> <<>>, bookkeeping |-> <<>>,
            symb_layers_map |-> <<>>]

\* PipelineContext()
EmptyContext(C) == [c \in C |-> NoEntry]

\* ctx=None: the caller holds no PipelineContext
NoContext == <<>>

\* symb_circuit in ctx
Contains(cx, sc) == sc \in DOMAIN cx /\ cx[sc].present

register_materialized_circuit(cx, sc, layers, bookkeeping, symb_layers_map) ==
    [cx EXCEPT ![sc] = [present |-> TRUE, layers |-> layers,
                        bookkeeping |-> bookkeeping,
                        symb_layers_map |-> symb_layers_map]]

\* ctx.get_materialized_layer(symb_circuit, symb_layer); ref = <<circuit, layer>>
\* is the layer object looked up in the layer map of symb_circuit.
get_materialized_layer(cx, sc, ref) ==
    IF \/ ~Contains(cx, sc)
       \/ ref[1] # sc
       \/ ref[2] \notin DOMAIN cx[sc].symb_layers_map
    THEN [tag |-> "KeyError", layer |-> NoLayer]
    ELSE [tag |-> "ok", layer |-> cx[sc].layers[cx[sc].symb_layers_map[ref[2]] + 1]]

----------------------------------------------------------------------------
(***************************************************************************)
(* The compiler (tensorized/compilers/torch_module.py).                    *)
(***************************************************************************)
materialize_input_registry ==
    [k \in InputKinds |-> IF k = "Constant" THEN "ConstantLayer" ELSE "CategoricalLayer"]

InnerKinds == {"Sum", "Mixing", "Hadamard", "Kronecker"}

materialize_inner_registry ==
    [k \in InnerKinds |->
        CASE k = "Sum"      -> "DenseLayer"
          [] k = "Mixing"   -> "MixingLayer"
          [] k = "Hadamard" -> "HadamardLayer"
          [] OTHER          -> "KroneckerLayer"]

Raised(tag) == [tag |-> tag, layer |-> NoLayer]

Returned(layer) == [tag |-> "ok", layer |-> layer]

\* compile_input_layer that ignores the provenance of the layer
compile_input_layer_copy(c, sl, cx, g) ==
    LET obj == circuits[c].layerObj[sl]
    IN  Returned(ExecLayer(materialize_input_registry[obj.kind], obj.num_channels,
                           obj.num_units, Cardinality(obj.scope), Param(c, sl, g)))

\* compile_input_layer(symb_circuit, symb_layer, ctx); g numbers the lowering
compile_input_layer(c, sl, cx, g) ==
    LET obj == circuits[c].layerObj[sl]
        symb_layer_operation == obj.operation
        layer(reparam) ==
            ExecLayer(materialize_input_registry[obj.kind], obj.num_channels,
                      obj.num_units, Cardinality(obj.scope), reparam)
    IN  IF obj.kind \notin DOMAIN materialize_input_registry THEN Raised("KeyError")
        ELSE IF symb_layer_operation.isNone
        THEN Returned(layer(Param(c, sl, g)))
        ELSE IF symb_layer_operation.operator = "INTEGRATION"
        THEN IF circuits[c].operation.isNone THEN Raised("AttributeError")
             ELSE LET symb_circuit_op == circuits[c].operation.operands[1]
                      symb_layer_op   == symb_layer_operation.operands[1]
                      layer_op == get_materialized_layer(cx, symb_circuit_op,
                                                         symb_layer_op)
                  IN  IF layer_op.tag # "ok" THEN Raised(layer_op.tag)
                      ELSE Returned(layer(layer_op.layer.reparam))
        ELSE Raised("AssertionError")

\* compile_inner_layer with a parameter object of its own for every sum layer
compile_inner_layer_copy(c, sl, cx, g) ==
    LET obj == circuits[c].layerObj[sl]
    IN  Returned(ExecLayer(materialize_inner_registry[obj.kind],
                           circuits[c].layerObj[obj.inputs[1]].num_units,
                           obj.num_units, Len(obj.inputs),
                           IF IsSumLayer(obj) THEN Param(c, sl, g) ELSE NoParam))

\* compile_inner_layer(symb_circuit, symb_layer, ctx, reparam)
compile_inner_layer(c, sl, cx, g) ==
    LET obj == circuits[c].layerObj[sl]
        symb_layer_operation == obj.operation
        layer(reparam) ==
            ExecLayer(materialize_inner_registry[obj.kind],
                      circuits[c].layerObj[obj.inputs[1]].num_units,
                      obj.num_units, Len(obj.inputs), reparam)
    IN  IF obj.kind \notin DOMAIN materialize_inner_registry THEN Raised("KeyError")
        ELSE IF symb_layer_operation.isNone \/ ~IsSumLayer(obj)
        THEN IF obj.inputs = <<>> THEN Raised("IndexError")
             ELSE Returned(layer(IF IsSumLayer(obj) THEN Param(c, sl, g) ELSE NoParam))
        ELSE IF symb_layer_operation.operator = "INTEGRATION"
        THEN IF circuits[c].operation.isNone THEN Raised("AttributeError")
             ELSE LET symb_circuit_op == circuits[c].operation.operands[1]
                      symb_layer_op   == symb_layer_operation.operands[1]
                      layer_op == get_materialized_layer(cx, symb_circuit_op,
                                                         symb_layer_op)
                  IN  IF layer_op.tag # "ok" THEN Raised(layer_op.tag)
                      ELSE IF obj.inputs = <<>> THEN Raised("IndexError")
                      ELSE Returned(layer(layer_op.layer.reparam))
        ELSE Raised("AssertionError")

\* a bookkeeping entry that never carries scope indices
BookkeepingEntryNoScope(indices, hasScope, scope) ==
    [indices |-> indices, hasScope |-> FALSE, scope |-> {}]

\* a bookkeeping entry: (list of layer ids, tensor of scope indices or None)
BookkeepingEntry(indices, hasScope, scope) ==
    [indices |-> indices, hasScope |-> hasScope, scope |-> scope]

\* layer ids counted from one
MapAllOneBased(symb_layers_map, list) ==
    [j \in DOMAIN list |-> symb_layers_map[list[j]] + 1]

\* [symb_layers_map[isl] for isl in list]
MapAll(symb_layers_map, list) == [j \in DOMAIN list |-> symb_layers_map[list[j]]]

\* The loop of compile_circuit from position k of the layer list; st holds
\* layers, bookkeeping and symb_layers_map, and how the loop ended.
RECURSIVE CompileLayers(_, _, _, _, _)
CompileLayers(c, cx, g, k, st) ==
    IF k > Len(circuits[c].layers) THEN st
    ELSE
      LET sl  == circuits[c].layers[k]
          obj == circuits[c].layerObj[sl]
          r   == IF IsInputLayer(obj) THEN compile_input_layer(c, sl, cx, g)
                 ELSE IF ~(IsSumLayer(obj) \/ IsProdLayer(obj))
                      THEN Raised("AssertionError")
                      ELSE compile_inner_layer(c, sl, cx, g)
      IN  IF r.tag # "ok" THEN [st EXCEPT !.tag = r.tag, !.failedAt = k - 1]
          ELSE IF /\ ~IsInputLayer(obj)
                  /\ \E isl \in Range(obj.inputs) : isl \notin DOMAIN st.symb_layers_map
          THEN [st EXCEPT !.tag = "KeyError", !.failedAt = k - 1]
          ELSE
            LET bookkeeping_entry ==
                    IF IsInputLayer(obj)
                    THEN BookkeepingEntry(<<>>, TRUE, obj.scope)
                    ELSE BookkeepingEntry(MapAll(st.symb_layers_map, obj.inputs),
                                          FALSE, {})
                layer_id == Len(st.layers)
            IN  CompileLayers(c, cx, g, k + 1,
                  [st EXCEPT !.bookkeeping = Append(@, bookkeeping_entry),
                             !.symb_layers_map = Put(@, sl, layer_id),
                             !.layers = Append(@, r.layer)])

\* compile_circuit that registers what it has when a layer fails
compile_circuit_eager(c, cx, g) ==
    LET st == CompileLayers(c, cx, g, 1,
                  [tag |-> "ok", failedAt |-> -1, layers |-> <<>>,
                   bookkeeping |-> <<>>, symb_layers_map |-> <<>>])
    IN  [tag |-> st.tag, failedAt |-> st.failedAt,
         ctx |-> register_materialized_circuit(cx, c, st.layers, st.bookkeeping,
                                               st.symb_layers_map)]

\* compile_circuit(symb_circuit, reparam, ctx): the context afterwards, or
\* the error raised and the position of the layer that raised it
compile_circuit(c, cx, g) ==
    LET st == CompileLayers(c, cx, g, 1,
                  [tag |-> "ok", failedAt |-> -1, layers |-> <<>>,
                   bookkeeping |-> <<>>, symb_layers_map |-> <<>>])
        outs == output_layers(circuits[c])
    IN  IF st.tag # "ok" THEN [tag |-> st.tag, failedAt |-> st.failedAt, ctx |-> cx]
        ELSE IF outs.tag # "ok"
        THEN [tag |-> outs.tag, failedAt |-> Len(circuits[c].layers), ctx |-> cx]
        ELSE LET output_indices == MapAll(st.symb_layers_map, outs.list)
                 bookkeeping == Append(st.bookkeeping,
                                       BookkeepingEntry(output_indices, FALSE, {}))
             IN  [tag |-> "ok", failedAt |-> -1,
                  ctx |-> register_materialized_circuit(cx, c, st.layers, bookkeeping,
                                                        st.symb_layers_map)]

\* the loop of compile_pipeline without the check of lines 50-51
RECURSIVE PipelineLoopNoSkip(_, _, _, _)
PipelineLoopNoSkip(ordering, low, k, st) ==
    IF k > Len(ordering) THEN st
    ELSE LET symb_circuit == ordering[k]
             r == compile_circuit(symb_circuit, st.ctx, low[symb_circuit] + 1)
         IN  IF r.tag # "ok"
             THEN [st EXCEPT !.tag = r.tag, !.failed = symb_circuit,
                             !.failedAt = r.failedAt]
             ELSE PipelineLoopNoSkip(ordering, low, k + 1,
                    [st EXCEPT !.ctx = r.ctx, !.lowered = Append(@, symb_circuit)])

\* The loop of compile_pipeline from position k of the ordering; low[c] is
\* the number of lowerings of c registered in the context before the call.
RECURSIVE PipelineLoop(_, _, _, _)
PipelineLoop(ordering, low, k, st) ==
    IF k > Len(ordering) THEN st
    ELSE LET symb_circuit == ordering[k]
         IN  IF Contains(st.ctx, symb_circuit)
             THEN PipelineLoop(ordering, low, k + 1, st)
             ELSE LET r == compile_circuit(symb_circuit, st.ctx, low[symb_circuit] + 1)
                  IN  IF r.tag # "ok"
                      THEN [st EXCEPT !.tag = r.tag, !.failed = symb_circuit,
                                      !.failedAt = r.failedAt]
                      ELSE PipelineLoop(ordering, low, k + 1,
                             [st EXCEPT !.ctx = r.ctx,
                                        !.lowered = Append(@, symb_circuit)])

\* compile_pipeline from line 43 on: the error of the ordering, or the loop
PipelineOrdered(ordering, low, st0) ==
    IF ordering.tag # "ok" THEN [st0 EXCEPT !.tag = ordering.tag]
    ELSE PipelineLoop(ordering.ordering, low, 1,
                      [st0 EXCEPT !.ordering = ordering.ordering])

\* compile_pipeline without the ordering: the roots are lowered as iterated
compile_pipeline_roots(rootSeq, cx, low) ==
    LET ctx1 == IF cx = NoContext THEN EmptyContext(DOMAIN circuits) ELSE cx
    IN  PipelineLoop(rootSeq, low, 1,
                     [tag |-> "ok", ordering |-> rootSeq, entry |-> ctx1, ctx |-> ctx1,
                      lowered |-> <<>>, failed |-> 0, failedAt |-> -1])

\* compile_pipeline(roots, reparam, ctx), with the roots iterated as rootSeq;
\* entry is the context after line 40, ctx the context when the call ends.
compile_pipeline(rootSeq, cx, low) ==
    LET ctx1 == IF cx = NoContext THEN EmptyContext(DOMAIN circuits) ELSE cx
        ordering == pipeline_topological_ordering(rootSeq)
    IN  PipelineOrdered(ordering, low,
                        [tag |-> "ok", ordering |-> <<>>, entry |-> ctx1, ctx |-> ctx1,
                         lowered |-> <<>>, failed |-> 0, failedAt |-> -1])

----------------------------------------------------------------------------
(***************************************************************************)
(* Spec: pipelines of NumCircuits circuits handed to the compiler.  The    *)
(* circuits of a pipeline have the same layer structure (a derived circuit *)
(* mirrors its operand).  A circuit without operation has layers without   *)
(* provenance; the layers of a derived circuit carry the provenance that   *)
(* the pipeline's pattern gives to their class, with the corresponding     *)
(* layers of the operand circuits as operands.                             *)
(***************************************************************************)
Shape(layers, objs) == [layers |-> layers, objs |-> objs]

\* a layer of a shape: class, scope, units, channels, inputs
L(kind, scope, num_units, num_channels, inputs) ==
    SymbLayer(kind, scope, num_units, num_channels, inputs, NoLayerOperation)

\* an input layer and the sum layer over it
ShapeLeaf ==
    Shape(<<1, 2>>, <<L("Categorical", {0}, 2, 1, <<>>), L("Sum", {0}, 1, 0, <<1>>)>>)

\* two leaves, their product and a sum layer over it
ShapePair ==
    Shape(<<1, 2, 3, 4, 5, 6>>,
          <<L("Categorical", {0}, 2, 1, <<>>), L("Sum", {0}, 3, 0, <<1>>),
            L("Constant", {1}, 2, 1, <<>>), L("Sum", {1}, 3, 0, <<3>>),
            L("Hadamard", {0, 1}, 3, 0, <<2, 4>>), L("Sum", {0, 1}, 1, 0, <<5>>)>>)

\* one input layer read by two sum layers, both outputs of the circuit
ShapeTwoOutputs ==
    Shape(<<1, 2, 3>>,
          <<L("Categorical", {0}, 2, 1, <<>>), L("Sum", {0}, 1, 0, <<1>>),
            L("Sum", {0}, 1, 0, <<1>>)>>)

\* two sum layers over one input layer, mixed
ShapeMixing ==
    Shape(<<1, 2, 3, 4>>,
          <<L("Categorical", {0}, 2, 1, <<>>), L("Sum", {0}, 3, 0, <<1>>),
            L("Sum", {0}, 3, 0, <<1>>), L("Mixing", {0}, 3, 0, <<2, 3>>)>>)

\* a layer list that is not in topological order
ShapeUnsorted ==
    Shape(<<1, 3, 2>>,
          <<L("Categorical", {0}, 2, 1, <<>>), L("Sum", {0}, 3, 0, <<1>>),
            L("Sum", {0}, 1, 0, <<2>>)>>)

ProvPattern(input, inner) == [input |-> input, inner |-> inner]

\* SymbOperator, and "NONE" for a layer without provenance
ProvPatterns ==
    {ProvPattern("NONE", "NONE"),
     ProvPattern("INTEGRATION", "INTEGRATION"),
     ProvPattern("INTEGRATION", "NONE"),
     ProvPattern("NONE", "INTEGRATION"),
     ProvPattern("DIFFERENTIATION", "INTEGRATION"),
     ProvPattern("MULTIPLICATION", "INTEGRATION"),
     ProvPattern("INTEGRATION", "DIFFERENTIATION"),
     ProvPattern("INTEGRATION", "MULTIPLICATION")}

\* the provenance of layer l (object obj) of a circuit with operation op
Provenance(op, pattern, l, obj) ==
    LET operator == IF IsInputLayer(obj) THEN pattern.input ELSE pattern.inner
    IN  IF op.isNone \/ operator = "NONE" THEN NoLayerOperation
        ELSE LayerOperation(operator,
                            [j \in DOMAIN op.operands |-> <<op.operands[j], l>>])

ShapedCircuit(shape, op, pattern) ==
    DirectCircuit(UNION {shape.objs[l].scope : l \in DOMAIN shape.objs},
                  shape.layers,
                  [l \in DOMAIN shape.objs |->
                      [shape.objs[l] EXCEPT
                          !.operation = Provenance(op, pattern, l, shape.objs[l])]],
                  op)

\* the layer structures and provenance patterns of the pipelines explored
Pipelines ==
    {<<ShapeLeaf, pattern>> : pattern \in ProvPatterns}
      \cup {<<ShapePair, ProvPattern("NONE", "NONE")>>,
            <<ShapePair, ProvPattern("INTEGRATION", "INTEGRATION")>>,
            <<ShapeTwoOutputs, ProvPattern("NONE", "NONE")>>,
            <<ShapeMixing, ProvPattern("INTEGRATION", "INTEGRATION")>>,
            <<ShapeUnsorted, ProvPattern("NONE", "NONE")>>}

\* no operation, or an operation on one circuit of the pipeline
UnaryOperations(C) == {NoOperation} \cup {OperationOn(<<a>>) : a \in C}

Init ==
    /\ \E pipeline \in Pipelines, ops \in [1..NumCircuits -> UnaryOperations(1..NumCircuits)] :
          circuits = [c \in 1..NumCircuits |->
                         ShapedCircuit(pipeline[1], ops[c], pipeline[2])]
    /\ ctx = NoContext
    /\ lowerings = [c \in 1..NumCircuits |-> 0]
    /\ iterators = <<>>
    /\ registry = NoRegistry
    /\ ambient = NoAmbient
    /\ ret = NoCall

\* the circuits whose output_layers a call has iterated
AfterReads(read) ==
    [c \in DOMAIN circuits |->
        IF c \in read
        THEN [circuits[c] EXCEPT !.out_layers = OutLayersAfterRead(circuits[c])]
        ELSE circuits[c]]

\* ctx = PipelineContext() by the caller
NewContext ==
    /\ ctx = NoContext
    /\ ctx' = EmptyContext(DOMAIN circuits)
    /\ ret' = Ret("PipelineContext", {}, 0, "ok", <<>>)
    /\ UNCHANGED <<circuits, lowerings, registry, ambient, iterators>>

(***************************************************************************)
(* ctx = compile_pipeline(roots, reparam, ctx) with the context the caller *)
(* holds, None when it holds none.  The context is updated in place: when  *)
(* the call raises, the caller's context keeps the circuits lowered before *)
(* the failure, and a context created by the call is lost.                 *)
(***************************************************************************)
CompilePipeline ==
    \E roots \in SUBSET DOMAIN circuits :
      \E rootSeq \in IterationOrders(roots) :
        \E r \in {compile_pipeline(rootSeq, ctx, lowerings)} :
          \E kept \in {ctx # NoContext \/ r.tag = "ok"} :
            /\ ctx' = IF kept THEN r.ctx ELSE ctx
            /\ lowerings' = IF kept
                            THEN [c \in DOMAIN circuits |->
                                    IF c \in Range(r.lowered) THEN lowerings[c] + 1
                                    ELSE lowerings[c]]
                            ELSE lowerings
            /\ circuits' = AfterReads(Range(r.lowered))
            /\ UNCHANGED <<registry, ambient, iterators>>
            /\ ret' = CallRecord("compile_pipeline", roots, 0, r.tag, r.ordering,
                                 r.entry, r.ctx, r.lowered, r.failed, r.failedAt)

\* compile_circuit(symb_circuit, reparam, ctx) on the context the caller holds
CompileCircuit ==
    \E c \in DOMAIN circuits :
        /\ ctx # NoContext
        /\ lowerings[c] < MaxLowerings
        /\ \E r \in {compile_circuit(c, ctx, lowerings[c] + 1)} :
               /\ ctx' = r.ctx
               /\ lowerings' = IF r.tag = "ok"
                               THEN [lowerings EXCEPT ![c] = @ + 1]
                               ELSE lowerings
               /\ circuits' = AfterReads(IF r.tag = "ok" THEN {c} ELSE {})
               /\ UNCHANGED <<registry, ambient, iterators>>
               /\ ret' = CallRecord("compile_circuit", {}, c, r.tag, <<>>, ctx, r.ctx,
                                    IF r.tag = "ok" THEN <<c>> ELSE <<>>,
                                    IF r.tag = "ok" THEN 0 ELSE c, r.failedAt)

Next == NewContext \/ CompilePipeline \/ CompileCircuit

Spec == Init /\ [][Next]_vars

----------------------------------------------------------------------------
(***************************************************************************)
(* Graph notions the properties are stated with.  succ maps a node to the  *)
(* sequence of nodes it depends on.                                        *)
(***************************************************************************)
RECURSIVE Closure(_, _)
Closure(S, succ) ==
    LET T == S \cup UNION {Range(succ[n]) : n \in S \cap DOMAIN succ}
    IN  IF T = S THEN S ELSE Closure(T, succ)

HasCycle(S, succ) ==
    \E n \in S \cap DOMAIN succ : n \in Closure(Range(succ[n]), succ)

Positions(seq, x) == {i \in DOMAIN seq : seq[i] = x}

\* x occurs in seq, and before every occurrence of y
Before(seq, x, y) ==
    /\ Positions(seq, x) # {}
    /\ \A i \in Positions(seq, x), j \in Positions(seq, y) : i < j

\* the operand circuits of every circuit (none without an operation)
Operands == [sc \in DOMAIN circuits |-> circuits[sc].operation.operands]

ReachableCircuits(roots) == Closure(roots, Operands)

----------------------------------------------------------------------------
(***************************************************************************)
(* Properties of pipeline_topological_ordering (SpecTopo).                 *)
(***************************************************************************)

\* C1: for an acyclic pipeline pipeline_topological_ordering returns a list
\* in which every reachable circuit occurs exactly once, after all of the
\* circuits in its operation.operands.
C1_PipelineOrderRespectsOperands ==
    ret.op = "pipeline_topological_ordering" =>
      LET R == ReachableCircuits(ret.roots)
      IN  ~HasCycle(R, Operands) =>
            /\ ret.tag = "ok"
            /\ \A c \in R :
                 /\ Cardinality(Positions(ret.ordering, c)) = 1
                 /\ \A o \in Range(Operands[c]) : Before(ret.ordering, o, c)

\* a call on a root derived from another circuit
C1_Witness ==
    /\ ret.op = "pipeline_topological_ordering"
    /\ ret.roots = {2}
    /\ circuits[2].operation = OperationOn(<<1>>)
    /\ circuits[1].operation = NoOperation
    /\ ret.ordering = <<1, 2>>

\* C2: pipeline_topological_ordering raises the cycle error exactly when
\* the operand graph reachable from the roots has a cycle, and otherwise
\* returns as many circuits as are reachable from the roots.
C2_CycleErrorOrFullOrdering ==
    ret.op = "pipeline_topological_ordering" =>
      LET R == ReachableCircuits(ret.roots)
      IN  IF HasCycle(R, Operands)
          THEN ret.tag = "ValueError"
          ELSE ret.tag = "ok" /\ Len(ret.ordering) = Cardinality(R)

\* a call on two circuits that are each other's operand
C2_Witness ==
    /\ ret.op = "pipeline_topological_ordering"
    /\ ret.roots = {2}
    /\ circuits[1].operation = OperationOn(<<2>>)
    /\ circuits[2].operation = OperationOn(<<1>>)
    /\ ret.tag = "ValueError"

----------------------------------------------------------------------------
(***************************************************************************)
(* Properties of layers_topological_ordering (SpecLayers).                 *)
(***************************************************************************)

\* C3: an ordering returned by layers_topological_ordering has every layer
\* P of in_layers[L] before L, for every layer L of the circuit, and a
\* circuit whose in_layers have a cycle makes the call raise.
C3_LayerOrderRespectsInLayers ==
    ret.op = "layers_topological_ordering" =>
      LET sc == circuits[ret.circuit]
      IN  /\ ret.tag = "ok" =>
               \A l \in DOMAIN sc.in_layers :
                 \A p \in Range(sc.in_layers[l]) : Before(ret.ordering, p, l)
          /\ HasCycle(DOMAIN sc.in_layers, sc.in_layers) => ret.tag # "ok"

----------------------------------------------------------------------------
(***************************************************************************)
(* Properties of the compiler (Spec).  ret records the last call: the      *)
(* context it started from (ctx0), the context when it ended (ctx1), the   *)
(* circuits it lowered, in order, and the circuit and layer position at    *)
(* which it failed.                                                        *)
(***************************************************************************)

\* the materialized layer registered for layer sl of circuit c
Materialized(cx, c, sl) == cx[c].layers[cx[c].symb_layers_map[sl] + 1]

\* layer l of circuit c carries provenance with one of the operators
HasProvenance(c, l, operators) ==
    /\ ~circuits[c].layerObj[l].operation.isNone
    /\ circuits[c].layerObj[l].operation.operator \in operators

\* C4: a compile_pipeline call that returns normally leaves every circuit
\* reachable from the roots registered, lowers every circuit that was not in
\* the context on entry exactly once, leaves the entry of every circuit that
\* was in the context untouched without lowering it, and a second call with
\* the same roots and context lowers nothing and leaves the context as it is.
C4_PipelineLowersMissingOnce ==
    (ret.op = "compile_pipeline" /\ ret.tag = "ok") =>
        /\ \A c \in ReachableCircuits(ret.roots) : Contains(ret.ctx1, c)
        /\ \A c \in DOMAIN circuits :
             IF Contains(ret.ctx0, c)
             THEN ret.ctx1[c] = ret.ctx0[c] /\ Positions(ret.lowered, c) = {}
             ELSE Cardinality(Positions(ret.lowered, c)) =
                    IF c \in ReachableCircuits(ret.roots) THEN 1 ELSE 0
        /\ \A rootSeq \in IterationOrders(ret.roots) :
             \E again \in {compile_pipeline(rootSeq, ret.ctx1, lowerings)} :
                again.tag = "ok" /\ again.ctx = ret.ctx1 /\ again.lowered = <<>>

C4_Witness ==
    /\ ret.op = "compile_pipeline" /\ ret.tag = "ok" /\ ret.roots = {2}
    /\ circuits[2].operation = OperationOn(<<1>>)
    /\ circuits[1].operation = NoOperation
    /\ Contains(ret.ctx0, 1) /\ ~Contains(ret.ctx0, 2)
    /\ ret.lowered = <<2>>
    /\ Contains(ctx, 1) /\ Contains(ctx, 2)

\* C5: when a circuit is lowered, every Sum layer and every Input layer of it
\* with INTEGRATION provenance holds the very parameter object of the
\* materialized layer that the context has for the operand layer of the
\* operand circuit.
C5_IntegrationSharesParameter ==
    \A c \in Range(ret.lowered) : \A l \in Range(circuits[c].layers) :
        (/\ IsSumLayer(circuits[c].layerObj[l]) \/ IsInputLayer(circuits[c].layerObj[l])
         /\ HasProvenance(c, l, {"INTEGRATION"})) =>
            \E layer_op \in {get_materialized_layer(
                                ret.ctx1, circuits[c].operation.operands[1],
                                circuits[c].layerObj[l].operation.operands[1])} :
                /\ layer_op.tag = "ok"
                /\ Materialized(ret.ctx1, c, l).reparam = layer_op.layer.reparam

C5_Witness ==
    /\ ret.op = "compile_pipeline" /\ ret.roots = {2} /\ ret.lowered = <<1, 2>>
    /\ circuits[2].operation = OperationOn(<<1>>)
    /\ circuits[2].layers = <<1, 2>>
    /\ HasProvenance(2, 1, {"INTEGRATION"}) /\ HasProvenance(2, 2, {"INTEGRATION"})
    /\ Materialized(ctx, 2, 1).reparam = Param(1, 1, 1)
    /\ Materialized(ctx, 2, 2).reparam = Param(1, 2, 1)

\* C6: in the bookkeeping registered for a circuit the index list of the last
\* entry is as long as the list of output layers of the circuit, and the
\* entry at (0-based) position i before it lists only indices below i.
C6_BookkeepingIndices ==
    \A c \in DOMAIN ctx : Contains(ctx, c) =>
        \E bookkeeping \in {ctx[c].bookkeeping} :
            /\ bookkeeping # <<>>
            /\ Len(bookkeeping[Len(bookkeeping)].indices) =
                 Len(output_layers(circuits[c]).list)
            /\ \A k \in 1..(Len(bookkeeping) - 1) :
                 \A index \in Range(bookkeeping[k].indices) : index < k - 1

C6_Witness ==
    /\ Contains(ctx, 1)
    /\ Len(output_layers(circuits[1]).list) = 2
    /\ Len(ctx[1].bookkeeping) = 4
    /\ ctx[1].bookkeeping[4].indices = <<1, 2>>
    /\ ctx[1].bookkeeping[3].indices = <<0>>

\* C7: the bookkeeping registered for a circuit has one entry per layer, in
\* the order of the layer list, and one more for the outputs; the entry of an
\* Input layer is the empty list with the scope of the layer, the entry of an
\* inner layer is the list of the ids of its inputs, in their order, without
\* scope; and the layer map sends the layer at (0-based) position i to i.
C7_BookkeepingPerLayer ==
    \A c \in DOMAIN ctx : Contains(ctx, c) =>
        /\ Len(ctx[c].bookkeeping) = Len(circuits[c].layers) + 1
        /\ Len(ctx[c].layers) = Len(circuits[c].layers)
        /\ DOMAIN ctx[c].symb_layers_map = Range(circuits[c].layers)
        /\ ~ctx[c].bookkeeping[Len(circuits[c].layers) + 1].hasScope
        /\ \A k \in DOMAIN circuits[c].layers :
             \E sl \in {circuits[c].layers[k]}, entry \in {ctx[c].bookkeeping[k]} :
                /\ ctx[c].symb_layers_map[sl] = k - 1
                /\ IF IsInputLayer(circuits[c].layerObj[sl])
                   THEN /\ entry.indices = <<>>
                        /\ entry.hasScope
                        /\ entry.scope = circuits[c].layerObj[sl].scope
                   ELSE /\ ~entry.hasScope
                        /\ entry.indices =
                             [j \in DOMAIN circuits[c].layerObj[sl].inputs |->
                                ctx[c].symb_layers_map[circuits[c].layerObj[sl].inputs[j]]]

C7_Witness ==
    /\ Contains(ctx, 1)
    /\ Len(circuits[1].layers) = 6
    /\ ctx[1].bookkeeping[3] = BookkeepingEntry(<<>>, TRUE, {1})
    /\ ctx[1].bookkeeping[5] = BookkeepingEntry(<<1, 3>>, FALSE, {})
    /\ ctx[1].bookkeeping[7] = BookkeepingEntry(<<5>>, FALSE, {})
    /\ ctx[1].symb_layers_map[5] = 4

\* C8: when compile_circuit fails for a circuit, in a call of its own or in
\* compile_pipeline, the context has no entry for that circuit and its other
\* entries are as before the failing lowering; and lowering the circuit once
\* another circuit has been lowered gives the context that the same two
\* lowerings give from the context before the failure.
C8_FailedCompileLeavesContext ==
    /\ (ret.op = "compile_circuit" /\ ret.tag # "ok") =>
          /\ ~Contains(ret.ctx1, ret.circuit)
          /\ ret.ctx1 = ret.ctx0
          /\ ctx = ret.ctx1
          /\ \A o \in DOMAIN circuits :
               \E fixed \in {compile_circuit(o, ctx, lowerings[o] + 1)},
                  clean \in {compile_circuit(o, ret.ctx0, lowerings[o] + 1)} :
                  compile_circuit(ret.circuit, fixed.ctx, lowerings[ret.circuit] + 1)
                    = compile_circuit(ret.circuit, clean.ctx, lowerings[ret.circuit] + 1)
    /\ (ret.op = "compile_pipeline" /\ ret.failed # 0) =>
          /\ ret.tag # "ok"
          /\ ~Contains(ret.ctx1, ret.failed)
          /\ \A c \in DOMAIN circuits :
               c \notin Range(ret.lowered) => ret.ctx1[c] = ret.ctx0[c]

C8_Witness ==
    /\ ret.op = "compile_circuit" /\ ret.circuit = 2 /\ ret.tag = "KeyError"
    /\ ret.failedAt = 0
    /\ circuits[2].operation = OperationOn(<<1>>)
    /\ circuits[1].operation = NoOperation
    /\ ~Contains(ctx, 1) /\ ~Contains(ctx, 2)
    /\ compile_circuit(1, ctx, 1).tag = "ok"
    /\ compile_circuit(2, compile_circuit(1, ctx, 1).ctx, 1).tag = "ok"

\* C9: compile_pipeline on roots from which a cycle of operands is reachable
\* raises the error of the ordering, lowers no circuit, and ends with the
\* context it started from.
C9_CyclicPipelineLowersNothing ==
    (/\ ret.op = "compile_pipeline"
     /\ HasCycle(ReachableCircuits(ret.roots), Operands)) =>
        /\ ret.tag = "ValueError"
        /\ ret.lowered = <<>>
        /\ ret.ctx1 = ret.ctx0

C9_Witness ==
    /\ ret.op = "compile_pipeline" /\ ret.roots = {1, 2} /\ ret.tag = "ValueError"
    /\ circuits[1].operation = OperationOn(<<2>>)
    /\ circuits[2].operation = OperationOn(<<1>>)
    /\ Contains(ret.ctx0, 2) /\ ret.ctx1 = ret.ctx0 /\ ctx = ret.ctx0

\* the layers of circuit c that are Input layers with a provenance operator
\* other than INTEGRATION
UnsupportedInputs(c) ==
    {l \in Range(circuits[c].layers) :
        /\ IsInputLayer(circuits[c].layerObj[l])
        /\ HasProvenance(c, l, {"DIFFERENTIATION", "MULTIPLICATION"})}

\* C10: a circuit with an Input layer whose provenance operator is
\* DIFFERENTIATION or MULTIPLICATION is never registered, and every lowering
\* of it fails: with the AssertionError of compile_input_layer when the
\* failing layer is such a layer, and never after one.
C10_UnsupportedInputProvenanceFails ==
    \A c \in DOMAIN circuits : UnsupportedInputs(c) # {} =>
        /\ ~Contains(ctx, c)
        /\ c \notin Range(ret.lowered)
        /\ ((ret.op = "compile_circuit" /\ ret.circuit = c) \/ ret.failed = c) =>
              /\ ret.tag # "ok"
              /\ ret.failedAt \in 0..(Len(circuits[c].layers) - 1)
              /\ \A k \in 1..ret.failedAt :
                    circuits[c].layers[k] \notin UnsupportedInputs(c)
              /\ circuits[c].layers[ret.failedAt + 1] \in UnsupportedInputs(c)
                    => ret.tag = "AssertionError"

C10_Witness ==
    /\ ret.op = "compile_circuit" /\ ret.circuit = 2 /\ ret.tag = "AssertionError"
    /\ ret.failedAt = 0
    /\ Contains(ctx, 1)
    /\ circuits[2].operation = OperationOn(<<1>>)
    /\ UnsupportedInputs(2) = {1}
    /\ HasProvenance(2, 1, {"MULTIPLICATION"})
    /\ ~Contains(ctx, 2)

----------------------------------------------------------------------------
(***************************************************************************)
(* OperatorRegistry (symbolic/registry.py).  _rules is a dict from         *)
(* operator to a dict from signature (a tuple of layer classes) to rule    *)
(* function; a dict is the sequence of its items in insertion order.  A    *)
(* rule function is named by the function it ends up calling and by        *)
(* whether it swaps its two operands on the way (the lambda of line 142),  *)
(* so two rules are equal here exactly when they behave alike.             *)
(***************************************************************************)
\* Largest number of signatures of an operator in a rule table at the start.
MaxRules == 2

\* AbstractLayerOperator
Operators == {"INTEGRATION", "MULTIPLICATION"}

\* cirkit.symbolic.operators.DEFAULT_COMMUTATIVE_OPERATORS
DEFAULT_COMMUTATIVE_OPERATORS == {"MULTIPLICATION"}

\* annotations that are no class: issubclass raises TypeError on them
NonClasses == {"None", "Optional[Scope]"}

\* the direct base class of a class
Base(cls) ==
    CASE cls = "DenseLayer" -> "SumLayer"
      [] cls \in {"SumLayer", "HadamardLayer"} -> "Layer"
      [] OTHER -> "object"

\* issubclass(cls, of) for a class cls
RECURSIVE issubclass(_, _)
issubclass(cls, of) ==
    IF cls = of THEN TRUE
    ELSE IF cls = "object" THEN FALSE
    ELSE issubclass(Base(cls), of)

\* a rule: the function fn, called with its two operands swapped or not
Rule(fn, mirrored) == [fn |-> fn, mirrored |-> mirrored]

NoRule == Rule("none", FALSE)

\* lambda rhs, lhs: func(lhs, rhs)
Mirror(func) == [func EXCEPT !.mirrored = ~@]

\* func(x, y): the call that reaches the function, with its operands
Call(func, x, y) ==
    IF func.mirrored THEN <<func.fn, y, x>> ELSE <<func.fn, x, y>>

\* the positions of key in a dict
KeyPositions(dict, key) == {i \in DOMAIN dict : dict[i].key = key}

\* dict[key] = value: a key keeps its place, a new key goes last
SetItem(dict, key, value) ==
    IF KeyPositions(dict, key) # {}
    THEN [i \in DOMAIN dict |->
             IF dict[i].key = key THEN [key |-> key, value |-> value] ELSE dict[i]]
    ELSE Append(dict, [key |-> key, value |-> value])

\* dict[key] for a key of the dict
GetItem(dict, key) == dict[CHOOSE i \in KeyPositions(dict, key) : TRUE].value

\* OperatorRegistry._register_rule(op, func, signature, commutative)
_register_rule(rules, op, func, signature, commutative) ==
    IF op \notin DOMAIN rules THEN [tag |-> "KeyError", rules |-> rules]
    ELSE IF Len(signature) = 2
    THEN IF commutative /\ signature[1] # signature[2]
         THEN [tag |-> "ok",
               rules |-> [rules EXCEPT ![op] =
                            SetItem(SetItem(@, signature, func),
                                    <<signature[2], signature[1]>>, Mirror(func))]]
         ELSE [tag |-> "ok",
               rules |-> [rules EXCEPT ![op] = SetItem(@, signature, func)]]
    ELSE [tag |-> "ok",
          rules |-> [rules EXCEPT ![op] = SetItem(@, signature, func)]]

\* all(issubclass(x[0], x[1]) for x in zip(signature, s)), lengths equal
Matches(signature, s) ==
    /\ Len(signature) = Len(s)
    /\ \A k \in DOMAIN signature : issubclass(signature[k], s[k])

\* has_rule that knows exact signatures only
has_rule_exact(rules, op, signature) ==
    op \in DOMAIN rules /\ KeyPositions(rules[op], signature) # {}

\* OperatorRegistry.has_rule(op, *signature)
has_rule(rules, op, signature) ==
    IF op \notin DOMAIN rules THEN FALSE
    ELSE IF KeyPositions(rules[op], signature) # {} THEN TRUE
    ELSE \E i \in DOMAIN rules[op] : Matches(signature, rules[op][i].key)

Found(rule, rules) == [tag |-> "ok", rule |-> rule, rules |-> rules]

NotFound(tag, rules) == [tag |-> tag, rule |-> NoRule, rules |-> rules]

\* retrieve_rule without lines 101-104
retrieve_rule_uncached(rules, op, signature) ==
    IF op \notin DOMAIN rules THEN NotFound("OperatorNotFound", rules)
    ELSE IF KeyPositions(rules[op], signature) # {}
    THEN Found(GetItem(rules[op], signature), rules)
    ELSE IF \E i \in DOMAIN rules[op] : Matches(signature, rules[op][i].key)
    THEN Found(rules[op][CHOOSE i \in DOMAIN rules[op] :
                           /\ Matches(signature, rules[op][i].key)
                           /\ \A j \in 1..(i - 1) :
                                ~Matches(signature, rules[op][j].key)].value,
               rules)
    ELSE NotFound("OperatorSignatureNotFound", rules)

\* retrieve_rule that creates the operator it does not find
retrieve_rule_lenient(rules, op, signature) ==
    IF op \notin DOMAIN rules THEN NotFound("OperatorSignatureNotFound", Put(rules, op, <<>>))
    ELSE NotFound("OperatorSignatureNotFound", rules)

\* OperatorRegistry.retrieve_rule(op, *signature): the rule returned or the
\* error raised, and _rules afterwards
retrieve_rule(rules, op, signature) ==
    IF op \notin DOMAIN rules THEN NotFound("OperatorNotFound", rules)
    ELSE IF KeyPositions(rules[op], signature) # {}
    THEN Found(GetItem(rules[op], signature), rules)
    ELSE IF \E i \in DOMAIN rules[op] : Matches(signature, rules[op][i].key)
    THEN \* the first item, in the order of the dict, whose signature matches
         LET f == rules[op][CHOOSE i \in DOMAIN rules[op] :
                              /\ Matches(signature, rules[op][i].key)
                              /\ \A j \in 1..(i - 1) :
                                   ~Matches(signature, rules[op][j].key)].value
         IN  Found(f, _register_rule(rules, op, f, signature,
                                     op \in DEFAULT_COMMUTATIVE_OPERATORS).rules)
    ELSE NotFound("OperatorSignatureNotFound", rules)

(***************************************************************************)
(* register_rule reads func.__annotations__ (args): the types of the       *)
(* parameters in order and the return annotation, "missing" when there is  *)
(* none.  del args["return"] changes the dict of the function itself.      *)
(***************************************************************************)
\* Largest number of parameters of a rule function.
MaxParams == 2

Annotations(params, return) == [params |-> params, return |-> return]

NoFunction == Annotations(<<>>, "missing")

\* the rule that calls the function handed to register_rule
Func == Rule("func", FALSE)

\* a Python tuple and a Python list of the same items are not equal
PyTuple(items) == [type |-> "tuple", items |-> items]

PyList(items) == [type |-> "list", items |-> items]

\* list(range(n))
RangeList(n) == PyList([i \in 1..n |-> i - 1])

\* the 0-based positions, in order, of the parameters typed as layers
LayerLocs(params) ==
    LET RECURSIVE Locs(_)
        Locs(k) == IF k > Len(params) THEN <<>>
                   ELSE IF issubclass(params[k], "Layer") THEN <<k - 1>> \o Locs(k + 1)
                   ELSE Locs(k + 1)
    IN  Locs(1)

Registered(tag, rules, args) == [tag |-> tag, rules |-> rules, args |-> args]

\* OperatorRegistry.register_rule(op, func, commutative): how the call ends,
\* _rules and func.__annotations__ afterwards
register_rule(rules, args, op, commutative) ==
    IF args.return = "missing" THEN Registered("ValueError", rules, args)
    ELSE IF args.return \in NonClasses THEN Registered("TypeError", rules, args)
    ELSE IF ~issubclass(args.return, "CircuitBlock")
    THEN Registered("ValueError", rules, args)
    ELSE
      LET deleted == [args EXCEPT !.return = "missing"]
      IN  IF \E k \in DOMAIN args.params : args.params[k] \in NonClasses
          THEN Registered("TypeError", rules, deleted)
          ELSE IF LayerLocs(args.params) = <<>>
          THEN Registered("ValueError", rules, deleted)
          ELSE
            LET arg_layer_types_locs == PyTuple(LayerLocs(args.params))
                signature == [k \in DOMAIN LayerLocs(args.params) |->
                                 args.params[LayerLocs(args.params)[k] + 1]]
            IN  IF arg_layer_types_locs # RangeList(Len(LayerLocs(args.params)))
                THEN Registered("ValueError", rules, deleted)
                ELSE Registered(_register_rule(rules, op, Func, signature,
                                               commutative).tag,
                                _register_rule(rules, op, Func, signature,
                                               commutative).rules,
                                deleted)

(***************************************************************************)
(* The record of a call on the registry: the call, its operator and         *)
(* signature arguments, how it ended, the rule or answer returned, and the *)
(* registry before the call.                                               *)
(***************************************************************************)
RegistryCall(call, operator, signature, commutative, tag, rule, answer, before) ==
    [op |-> call, operator |-> operator, signature |-> signature,
     commutative |-> commutative, tag |-> tag, rule |-> rule, answer |-> answer,
     before |-> before]

\* signatures of one or two classes
Signatures(classes) == {<<a>> : a \in classes} \cup (classes \X classes)

\* the classes of the signatures of a rule table at the start
TableClasses == {"SumLayer", "DenseLayer"}

\* the classes of the signatures asked for
QueryClasses == {"SumLayer", "DenseLayer", "HadamardLayer"}

\* dicts of at most n signatures; the i-th item maps to the function f<i>
Dicts(n) ==
    {<<>>}
      \cup {<<[key |-> a, value |-> Rule("f1", FALSE)]>> : a \in Signatures(TableClasses)}
      \cup (IF n < 2 THEN {}
            ELSE {<<[key |-> t[1], value |-> Rule("f1", FALSE)],
                    [key |-> t[2], value |-> Rule("f2", FALSE)]>> :
                    t \in {u \in Signatures(TableClasses) \X Signatures(TableClasses) :
                             u[1] # u[2]}})
      \cup (IF n < 3 THEN {}
            ELSE {<<[key |-> t[1], value |-> Rule("f1", FALSE)],
                    [key |-> t[2], value |-> Rule("f2", FALSE)],
                    [key |-> t[3], value |-> Rule("f3", FALSE)]>> :
                    t \in {u \in Signatures(TableClasses) \X Signatures(TableClasses)
                                   \X Signatures(TableClasses) :
                             u[1] # u[2] /\ u[1] # u[3] /\ u[2] # u[3]}})

\* rule tables: one operator with a dict of at most n signatures, the other
\* operators without rules or not in the table
Tables(n) ==
    {<<>>}
      \cup {[o \in (IF all THEN Operators ELSE {op}) |->
                 IF o = op THEN dict ELSE <<>>] :
               op \in Operators, dict \in Dicts(n), all \in BOOLEAN}

\* the parameter types of the rule functions
ParamTypes == {"SumLayer", "DenseLayer", "int", "Optional[Scope]"}

ParamLists ==
    UNION {[1..n -> ParamTypes] : n \in 0..MaxParams}

RuleFunctions ==
    {Annotations(params, return) :
        params \in ParamLists,
        return \in {"missing", "CircuitBlock", "int", "None"}}

(***************************************************************************)
(* SpecRegister: register_rule with one rule function on a registry.       *)
(***************************************************************************)
InitRegister ==
    /\ circuits = <<>>
    /\ ctx = <<>>
    /\ lowerings = <<>>
    /\ iterators = <<>>
    /\ \E rules \in Tables(1), args \in RuleFunctions :
          registry = [rules |-> rules, args |-> args]
    /\ ambient = NoAmbient
    /\ ret = NoCall

RegisterRule ==
    \E op \in Operators, commutative \in BOOLEAN :
      \E r \in {register_rule(registry.rules, registry.args, op, commutative)} :
        /\ registry' = [rules |-> r.rules, args |-> r.args]
        /\ ret' = RegistryCall("register_rule", op, <<>>, commutative, r.tag,
                               NoRule, FALSE, registry)
        /\ UNCHANGED <<circuits, ctx, lowerings, ambient, iterators>>

NextRegister == RegisterRule

SpecRegister == InitRegister /\ [][NextRegister]_vars

(***************************************************************************)
(* SpecRetrieve: retrieve_rule and has_rule on a registry with rules.      *)
(***************************************************************************)
InitRetrieve ==
    /\ circuits = <<>>
    /\ ctx = <<>>
    /\ lowerings = <<>>
    /\ iterators = <<>>
    /\ \E rules \in Tables(MaxRules) :
          registry = [rules |-> rules, args |-> NoFunction]
    /\ ambient = NoAmbient
    /\ ret = NoCall

RetrieveRule ==
    \E op \in Operators, signature \in Signatures(QueryClasses) :
      \E r \in {retrieve_rule(registry.rules, op, signature)} :
        /\ registry' = [registry EXCEPT !.rules = r.rules]
        /\ ret' = RegistryCall("retrieve_rule", op, signature, FALSE, r.tag,
                               r.rule, FALSE, registry)
        /\ UNCHANGED <<circuits, ctx, lowerings, ambient, iterators>>

HasRule ==
    \E op \in Operators, signature \in Signatures(QueryClasses) :
        /\ ret' = RegistryCall("has_rule", op, signature, FALSE, "ok", NoRule,
                               has_rule(registry.rules, op, signature), registry)
        /\ UNCHANGED <<circuits, ctx, lowerings, registry, ambient, iterators>>

NextRetrieve == RetrieveRule \/ HasRule

SpecRetrieve == InitRetrieve /\ [][NextRetrieve]_vars

(***************************************************************************)
(* Notions used to state the properties of the registry.                   *)
(***************************************************************************)
\* the signatures with a rule for op
Keys(rules, op) ==
    IF op \in DOMAIN rules THEN {rules[op][i].key : i \in DOMAIN rules[op]} ELSE {}

\* the dispatch signature of a rule function: the types of its layer parameters
SignatureOf(args) ==
    [k \in DOMAIN LayerLocs(args.params) |-> args.params[LayerLocs(args.params)[k] + 1]]

\* the layer-typed parameters are exactly the leading parameters
OperandsFirst(args) ==
    /\ \A k \in DOMAIN args.params : args.params[k] \notin NonClasses
    /\ LayerLocs(args.params) # <<>>
    /\ LayerLocs(args.params) = [k \in DOMAIN LayerLocs(args.params) |-> k - 1]

\* a function register_rule is to accept
ValidRule(args) == args.return = "CircuitBlock" /\ OperandsFirst(args)

\* a layer-typed parameter after a parameter that is not layer-typed
LayerAfterNonLayer(args) ==
    \E j, k \in DOMAIN args.params :
        /\ j < k
        /\ args.params[j] \in NonClasses \/ ~issubclass(args.params[j], "Layer")
        /\ args.params[k] \notin NonClasses /\ issubclass(args.params[k], "Layer")

\* C11: register_rule(op, f) succeeds for every function f whose return
\* annotation is CircuitBlock and whose layer-typed parameters are exactly its
\* leading parameters, also when op has no rule yet, and afterwards
\* retrieve_rule(op, *S), S the leading layer types, returns f.
C11_RegisterRuleAcceptsValidRule ==
    (ret.op = "register_rule" /\ ValidRule(ret.before.args))
        => /\ ret.tag = "ok"
           /\ retrieve_rule(registry.rules, ret.operator,
                            SignatureOf(ret.before.args)).tag = "ok"
           /\ retrieve_rule(registry.rules, ret.operator,
                            SignatureOf(ret.before.args)).rule = Func

\* C12: register_rule fails with a ValueError and leaves the rule table
\* unchanged whenever the return annotation is missing or not compatible with
\* CircuitBlock, or a layer-typed parameter comes after a parameter that is
\* not layer-typed.
C12_RegisterRuleRejectsWithValueError ==
    (/\ ret.op = "register_rule"
     /\ \/ ret.before.args.return # "CircuitBlock"
        \/ LayerAfterNonLayer(ret.before.args))
        => /\ ret.tag = "ValueError"
           /\ registry.rules = ret.before.rules

\* C13: registering a rule of two layer operands (A, B), A # B, with
\* commutative=True makes (B, A) resolve to a function g with
\* g(b, a) = f(a, b); with A = B, with another number of operands or without
\* commutative only the declared signature is added.
C13_CommutativeRegistrationMirrors ==
    (ret.op = "register_rule" /\ ValidRule(ret.before.args))
        => \E S \in {SignatureOf(ret.before.args)} :
            IF Len(S) = 2 /\ S[1] # S[2] /\ ret.commutative
            THEN /\ retrieve_rule(registry.rules, ret.operator,
                                  <<S[2], S[1]>>).tag = "ok"
                 /\ Call(retrieve_rule(registry.rules, ret.operator,
                                       <<S[2], S[1]>>).rule, "b", "a")
                      = Call(Func, "a", "b")
            ELSE Keys(registry.rules, ret.operator)
                   = Keys(ret.before.rules, ret.operator) \cup {S}

\* the positions, in the order of registration, of the signatures of op that
\* have the length of signature and a supertype at each position
MatchPositions(rules, op, signature) ==
    IF op \in DOMAIN rules
    THEN {i \in DOMAIN rules[op] : Matches(signature, rules[op][i].key)}
    ELSE {}

\* the least number of a non-empty set of numbers
Min(S) == CHOOSE i \in S : \A j \in S : i <= j

\* C14: when retrieve_rule(op, *sig) finds no exact signature, it returns the
\* rule of the first signature in registration order that has the length of
\* sig and a supertype of the queried type at each position, and afterwards
\* the table maps sig itself to that rule.
C14_FirstSubtypeMatchIsCached ==
    (/\ ret.op = "retrieve_rule"
     /\ ret.signature \notin Keys(ret.before.rules, ret.operator)
     /\ MatchPositions(ret.before.rules, ret.operator, ret.signature) # {})
        => /\ ret.tag = "ok"
           /\ ret.rule = ret.before.rules[ret.operator][
                            Min(MatchPositions(ret.before.rules, ret.operator,
                                               ret.signature))].value
           /\ ret.signature \in Keys(registry.rules, ret.operator)
           /\ GetItem(registry.rules[ret.operator], ret.signature) = ret.rule

\* a retrieval without exact signature that two registered signatures match,
\* with different rules
C14_Witness ==
    /\ ret.op = "retrieve_rule"
    /\ ret.tag = "ok"
    /\ ret.signature \notin Keys(ret.before.rules, ret.operator)
    /\ \E i, j \in MatchPositions(ret.before.rules, ret.operator, ret.signature) :
          /\ i < j
          /\ ret.before.rules[ret.operator][i].value
               # ret.before.rules[ret.operator][j].value
    /\ GetItem(registry.rules[ret.operator], ret.signature) = ret.rule

\* what a caller sees of has_rule and retrieve_rule
Answer(rules, op, signature) ==
    [has |-> has_rule(rules, op, signature),
     tag |-> retrieve_rule(rules, op, signature).tag,
     rule |-> retrieve_rule(rules, op, signature).rule]

\* C15: caching changes no result: retrieving the same (operator, signature)
\* again returns the same rule, and for every other (operator, signature) the
\* answers of has_rule and retrieve_rule after a retrieve_rule call are the
\* answers before it, also for commutative operators.
C15_CachingChangesNoAnswer ==
    ret.op = "retrieve_rule"
        => /\ ret.tag = "ok"
                => Answer(registry.rules, ret.operator, ret.signature)
                     = [has |-> TRUE, tag |-> "ok", rule |-> ret.rule]
           /\ \A op \in Operators, signature \in Signatures(QueryClasses) :
                <<op, signature>> # <<ret.operator, ret.signature>>
                    => Answer(registry.rules, op, signature)
                         = Answer(ret.before.rules, op, signature)

\* C16: retrieve_rule raises OperatorNotFound when the operator has never been
\* registered and OperatorSignatureNotFound when it is registered without a
\* signature that matches; the table is unchanged in both cases.
C16_NotFoundErrors ==
    ret.op = "retrieve_rule"
        => /\ ret.operator \notin DOMAIN ret.before.rules
                => ret.tag = "OperatorNotFound" /\ registry = ret.before
           /\ (/\ ret.operator \in DOMAIN ret.before.rules
               /\ ret.signature \notin Keys(ret.before.rules, ret.operator)
               /\ MatchPositions(ret.before.rules, ret.operator, ret.signature) = {})
                => ret.tag = "OperatorSignatureNotFound" /\ registry = ret.before

\* a retrieval on an operator never registered, another operator having rules
C16_Witness ==
    /\ ret.op = "retrieve_rule"
    /\ ret.tag = "OperatorNotFound"
    /\ ret.before.rules # <<>>
    /\ registry = ret.before

\* C17: has_rule never changes the table and is true exactly when
\* retrieve_rule with the same arguments would return a rule.
C17_HasRuleAgreesWithRetrieve ==
    ret.op = "has_rule"
        => /\ registry = ret.before
           /\ ret.answer <=> retrieve_rule(registry.rules, ret.operator,
                                           ret.signature).tag = "ok"
           /\ ~ret.answer <=> retrieve_rule(registry.rules, ret.operator,
                                            ret.signature).tag
                                 \in {"OperatorNotFound", "OperatorSignatureNotFound"}

\* has_rule answers true on a signature that is matched by subtype only
C17_Witness ==
    /\ ret.op = "has_rule"
    /\ ret.answer
    /\ ret.signature \notin Keys(registry.rules, ret.operator)
    /\ retrieve_rule(registry.rules, ret.operator, ret.signature).tag = "ok"

(***************************************************************************)
(* Context managers (pipeline.py, symbolic/registry.py).  A PipelineContext *)
(* installs its _op_registry in the context variable _OPERATOR_REGISTRY of  *)
(* pipeline.py, an OperatorRegistry installs itself in OPERATOR_REGISTRY of *)
(* symbolic/functional.py.  ambient holds the value of the two context     *)
(* variables, the token attribute of every manager, and the with           *)
(* statements that are open, innermost last, each with the value its       *)
(* variable had before its __enter__.                                      *)
(***************************************************************************)
\* Number of context managers of each kind.
NumContexts == 2

\* Largest number of with statements open at a time.
MaxDepth == 3

Managers == {"PipelineContext", "OperatorRegistry"} \X (1..NumContexts)

ContextVars == {"_OPERATOR_REGISTRY", "OPERATOR_REGISTRY"}

\* the context variable a manager sets
VarOf(m) == IF m[1] = "PipelineContext" THEN "_OPERATOR_REGISTRY" ELSE "OPERATOR_REGISTRY"

\* the registry a manager installs: self._op_registry, or self
RegistryOf(m) == <<"registry", m>>

\* the value of a context variable that is not set: its default
DefaultRegistry == <<"registry", <<"default", 0>>>>

\* self._token = None
NoToken == <<>>

\* the Token returned by ContextVar.set: it holds the value before the set
Token(old) == <<old>>

ContextCall(call, manager, tag, expected) ==
    [op |-> call, manager |-> manager, tag |-> tag, expected |-> expected]

InitContext ==
    /\ circuits = <<>>
    /\ ctx = <<>>
    /\ lowerings = <<>>
    /\ iterators = <<>>
    /\ registry = NoRegistry
    /\ ambient = [value |-> [v \in ContextVars |-> DefaultRegistry],
                  token |-> [m \in Managers |-> NoToken],
                  open |-> <<>>]
    /\ ret = NoCall

\* with m: ... is entered: m.__enter__()
Enter ==
    \E m \in Managers :
        /\ Len(ambient.open) < MaxDepth
        /\ ambient' = [value |-> [ambient.value EXCEPT ![VarOf(m)] = RegistryOf(m)],
                       token |-> [ambient.token EXCEPT
                                     ![m] = Token(ambient.value[VarOf(m)])],
                       open |-> Append(ambient.open,
                                       [manager |-> m,
                                        before |-> ambient.value[VarOf(m)]])]
        /\ ret' = ContextCall("__enter__", m, "ok", RegistryOf(m))
        /\ UNCHANGED <<circuits, ctx, lowerings, registry, iterators>>

\* the innermost with statement is left: m.__exit__(...).  ContextVar.reset
\* raises TypeError when it is given None instead of a token.
Exit ==
    /\ ambient.open # <<>>
    /\ \E top \in {ambient.open[Len(ambient.open)]} :
        /\ IF ambient.token[top.manager] = NoToken
           THEN /\ ambient' = [ambient EXCEPT
                                  !.open = SubSeq(@, 1, Len(@) - 1)]
                /\ ret' = ContextCall("__exit__", top.manager, "TypeError", top.before)
           ELSE /\ ambient' = [value |-> [ambient.value EXCEPT
                                             ![VarOf(top.manager)] =
                                                 ambient.token[top.manager][1]],
                               token |-> [ambient.token EXCEPT
                                             ![top.manager] = NoToken],
                               open |-> SubSeq(ambient.open, 1,
                                               Len(ambient.open) - 1)]
                /\ ret' = ContextCall("__exit__", top.manager, "ok", top.before)
        /\ UNCHANGED <<circuits, ctx, lowerings, registry, iterators>>

NextContext == Enter \/ Exit

SpecContext == InitContext /\ [][NextContext]_vars

\* the open with statements on the context variable v, innermost last
OpenOn(v) == SelectSeq(ambient.open, LAMBDA e : VarOf(e.manager) = v)

\* C18: in every properly nested sequence of entering and leaving pipeline
\* contexts and registries, the ambient registry while a context is entered
\* is the registry of the innermost entered context, and after each exit it
\* is the registry that was ambient before the matching enter, also when a
\* context is entered again while it is entered.
C18_AmbientRegistryIsScoped ==
    /\ \A v \in ContextVars :
          OpenOn(v) # <<>>
              => ambient.value[v] = RegistryOf(OpenOn(v)[Len(OpenOn(v))].manager)
    /\ ret.op = "__exit__"
          => /\ ret.tag = "ok"
             /\ ambient.value[VarOf(ret.manager)] = ret.expected

(***************************************************************************)
(* SpecBuild: circuits are built from region graphs, and                   *)
(* layers_topological_ordering is called on the circuit built last.        *)
(***************************************************************************)
\* a chain of two partitions over three leaf regions
RGChain ==
    RegionGraph(<<Region({0}, <<>>), Region({1}, <<>>), Region({2}, <<>>),
                  Partition({0, 1}, <<1, 2>>), Region({0, 1}, <<4>>),
                  Partition({0, 1, 2}, <<5, 3>>), Region({0, 1, 2}, <<6>>)>>)

\* a root region partitioned in three ways
RGMix3 ==
    RegionGraph(<<Region({0}, <<>>), Region({1}, <<>>), Region({2}, <<>>),
                  Partition({0, 1}, <<1, 2>>), Region({0, 1}, <<4>>),
                  Partition({1, 2}, <<2, 3>>), Region({1, 2}, <<6>>),
                  Partition({0, 2}, <<1, 3>>), Region({0, 2}, <<8>>),
                  Partition({0, 1, 2}, <<5, 3>>), Partition({0, 1, 2}, <<1, 7>>),
                  Partition({0, 1, 2}, <<9, 2>>),
                  Region({0, 1, 2}, <<10, 11, 12>>)>>)

\* two root regions that share a leaf region; a leaf region comes after the
\* first root in the node order
RGRoots ==
    RegionGraph(<<Region({0}, <<>>), Region({1}, <<>>),
                  Partition({0, 1}, <<1, 2>>), Region({0, 1}, <<3>>),
                  Region({2}, <<>>),
                  Partition({1, 2}, <<2, 5>>), Region({1, 2}, <<6>>)>>)

BuildGraphs == RegionGraphs \cup {RGChain, RGMix3, RGRoots}

\* the record of a call of from_region_graph: the region graph and the unit
\* counts it was given
Built(rg, num_sum_units, num_classes, circuit) ==
    [op |-> "from_region_graph", rg |-> rg, num_sum_units |-> num_sum_units,
     num_classes |-> num_classes, circuit |-> circuit, tag |-> "ok"]

InitBuild ==
    /\ circuits = <<>>
    /\ ctx = <<>>
    /\ lowerings = <<>>
    /\ iterators = <<>>
    /\ registry = NoRegistry
    /\ ambient = NoAmbient
    /\ ret = NoCall

\* sc = SymbCircuit.from_region_graph(rg, ...): the new circuit takes the
\* place of the one at hand
FromRegionGraph ==
    \E rg \in BuildGraphs, nch \in UnitCounts, niu \in UnitCounts,
       nsu \in UnitCounts, ncl \in UnitCounts :
        /\ circuits' = <<from_region_graph(rg, nch, niu, nsu, ncl)>>
        /\ ret' = Built(rg, nsu, ncl, 1)
        /\ UNCHANGED <<ctx, lowerings, registry, ambient, iterators>>

NextBuild == FromRegionGraph \/ LayersTopologicalOrdering

SpecBuild == InitBuild /\ [][NextBuild]_vars

(***************************************************************************)
(* SpecViews: the layer views of a circuit built from a region graph are   *)
(* read, in one go or step by step, and layers_topological_ordering is     *)
(* called on it.                                                           *)
(***************************************************************************)
InitViews ==
    /\ \E rg \in BuildGraphs, nsu \in UnitCounts, ncl \in UnitCounts :
          circuits = <<from_region_graph(rg, 1, 1, nsu, ncl)>>
    /\ ctx = <<>>
    /\ lowerings = <<>>
    /\ iterators = <<>>
    /\ registry = NoRegistry
    /\ ambient = NoAmbient
    /\ ret = NoCall

\* a layer view iterated to the end in one go, list(sc.<view>): the layers
\* it yields, or the error raised by the generator
Yielded(tag, list) == [tag |-> tag, list |-> list]

\* SymbCircuit.layers
layers(sc) == Yielded("ok", sc.layers)

\* SymbCircuit.sum_layers
sum_layers(sc) ==
    Yielded("ok", SelectSeq(sc.layers, LAMBDA l : IsSumLayer(sc.layerObj[l])))

\* SymbCircuit.product_layers
product_layers(sc) ==
    Yielded("ok", SelectSeq(sc.layers, LAMBDA l : IsProdLayer(sc.layerObj[l])))

\* SymbCircuit.inner_layers: self._in_layers[layer] is read for every layer,
\* and in_layers is a plain dict
inner_layers(sc) ==
    IF \E k \in DOMAIN sc.layers : sc.layers[k] \notin DOMAIN sc.in_layers
    THEN Yielded("KeyError",
                 SelectSeq(SubSeq(sc.layers, 1,
                                  (CHOOSE k \in DOMAIN sc.layers :
                                      /\ sc.layers[k] \notin DOMAIN sc.in_layers
                                      /\ \A j \in 1..(k - 1) :
                                            sc.layers[j] \in DOMAIN sc.in_layers) - 1),
                           LAMBDA l : sc.in_layers[l] # <<>>))
    ELSE Yielded("ok", SelectSeq(sc.layers, LAMBDA l : sc.in_layers[l] # <<>>))

Views == {"layers", "input_layers", "sum_layers", "product_layers",
          "output_layers", "inner_layers"}

\* list(sc.<view>)
View(sc, view) ==
    CASE view = "layers" -> layers(sc)
      [] view = "input_layers" -> Yielded("ok", input_layers(sc))
      [] view = "sum_layers" -> sum_layers(sc)
      [] view = "product_layers" -> product_layers(sc)
      [] view = "output_layers" -> output_layers(sc)
      [] view = "inner_layers" -> inner_layers(sc)

\* the record of a view read: the circuit as it was before the read
Viewed(view, circuit, tag, list, before) ==
    [op |-> "view", view |-> view, circuit |-> circuit, tag |-> tag,
     list |-> list, before |-> before]

\* list(sc.<view>): output_layers looks every layer up in out_layers
LayerView ==
    \E c \in DOMAIN circuits, view \in Views :
      \E r \in {View(circuits[c], view)} :
        /\ circuits' = IF view = "output_layers"
                       THEN [circuits EXCEPT
                               ![c].out_layers = OutLayersAfterRead(circuits[c])]
                       ELSE circuits
        /\ ret' = Viewed(view, c, r.tag, r.list, circuits[c])
        /\ UNCHANGED <<ctx, lowerings, registry, ambient, iterators>>

(***************************************************************************)
(* A layer view read step by step.  Every view is an iterator over         *)
(* self._layers, a generator expression for all views but layers: it runs  *)
(* only inside next(), up to the next layer it yields, and between two     *)
(* next() calls the caller may do anything else with the circuit.          *)
(***************************************************************************)
\* the iterator of a view of circuit c: the number of layers of self._layers
\* it has gone through, whether it has ended, and the layers it has yielded
Iterator(view, circuit, pos, done, yielded) ==
    [view |-> view, circuit |-> circuit, pos |-> pos, done |-> done,
     yielded |-> yielded]

\* the condition of the generator expression of a view, for a layer that has
\* a key in the dict the condition looks it up in
Takes(sc, view, l) ==
    CASE view = "layers" -> TRUE
      [] view = "input_layers" -> IsInputLayer(sc.layerObj[l])
      [] view = "sum_layers" -> IsSumLayer(sc.layerObj[l])
      [] view = "product_layers" -> IsProdLayer(sc.layerObj[l])
      [] view = "output_layers" -> ~Truthy(OutLookup(sc, l))
      [] view = "inner_layers" -> sc.in_layers[l] # <<>>

\* what next() gives and the circuit it leaves
Stepped(tag, layer, pos, done, sc) ==
    [tag |-> tag, layer |-> layer, pos |-> pos, done |-> done, sc |-> sc]

\* next(it) on an iterator that has gone through pos layers of circuit sc:
\* the generator runs on from there; the lookup of output_layers inserts the
\* key of every layer it comes to into the defaultdict
RECURSIVE next(_, _, _)
next(sc, view, pos) ==
    IF pos >= Len(sc.layers) THEN Stepped("StopIteration", 0, pos, TRUE, sc)
    ELSE LET l == sc.layers[pos + 1]
         IN  IF \/ view = "inner_layers" /\ l \notin DOMAIN sc.in_layers
                \/ view = "output_layers" /\ ~sc.out_default
                      /\ l \notin DOMAIN sc.out_layers
             THEN Stepped("KeyError", 0, pos + 1, TRUE, sc)
             ELSE LET sc1 == IF view = "output_layers" /\ l \notin DOMAIN sc.out_layers
                             THEN [sc EXCEPT !.out_layers = Put(@, l, ListValue(<<>>))]
                             ELSE sc
                  IN  IF Takes(sc1, view, l)
                      THEN Stepped("ok", l, pos + 1, FALSE, sc1)
                      ELSE next(sc1, view, pos + 1)

\* the record of it = sc.<view>
Opened(view, circuit) == [op |-> "iter", view |-> view, circuit |-> circuit, tag |-> "ok"]

\* the record of next(it): the layer yielded or the exception, the layers
\* yielded up to now, and the circuit as it was before the call
Advanced(view, circuit, tag, layer, list, before) ==
    [op |-> "next", view |-> view, circuit |-> circuit, tag |-> tag,
     layer |-> layer, list |-> list, before |-> before]

\* it = sc.<view>: no layer is looked at yet; the iterator takes the place of
\* the one at hand
OpenView ==
    \E c \in DOMAIN circuits, view \in Views :
        /\ iterators' = <<Iterator(view, c, 0, FALSE, <<>>)>>
        /\ ret' = Opened(view, c)
        /\ UNCHANGED <<circuits, ctx, lowerings, registry, ambient>>

\* next(it); an iterator that has ended or raised stays ended
NextLayer ==
    \E i \in DOMAIN iterators :
      \E it \in {iterators[i]} :
        \E r \in {IF it.done
                   THEN Stepped("StopIteration", 0, it.pos, TRUE, circuits[it.circuit])
                   ELSE next(circuits[it.circuit], it.view, it.pos)} :
          \E yielded \in {IF r.tag = "ok" THEN Append(it.yielded, r.layer)
                           ELSE it.yielded} :
            /\ circuits' = [circuits EXCEPT ![it.circuit] = r.sc]
            /\ iterators' = [iterators EXCEPT
                                ![i] = Iterator(it.view, it.circuit, r.pos, r.done, yielded)]
            /\ ret' = Advanced(it.view, it.circuit, r.tag, r.layer, yielded,
                               circuits[it.circuit])
            /\ UNCHANGED <<ctx, lowerings, registry, ambient>>

NextViews == LayersTopologicalOrdering \/ LayerView \/ OpenView \/ NextLayer

SpecViews == InitViews /\ [][NextViews]_vars

(***************************************************************************)
(* Notions used to state the properties of from_region_graph.              *)
(***************************************************************************)
IsLeafRegion(rgn) == rgn.kind = "region" /\ rgn.inputs = <<>>

IsInnerRegion(rgn) == rgn.kind = "region" /\ rgn.inputs # <<>>

\* the place in the layer list of the layer emitted last for node i: every
\* node before it and itself emits one layer, a leaf region two
Emitted(rg, i) == i + Cardinality({j \in 1..i : IsLeafRegion(rg.nodes[j])})

IsMixingLayer(layer) == layer.kind = "Mixing"

\* the layers of a circuit that are input, product, mixing layers
InputLayersOf(sc) == {l \in Range(sc.layers) : IsInputLayer(sc.layerObj[l])}

ProdLayersOf(sc) == {l \in Range(sc.layers) : IsProdLayer(sc.layerObj[l])}

MixingLayersOf(sc) == {l \in Range(sc.layers) : IsMixingLayer(sc.layerObj[l])}

\* C19: from_region_graph emits for each leaf region an Input layer followed
\* immediately in the layer list by a Sum layer whose only input is that
\* Input layer, and for each partition exactly one Product layer whose inputs
\* are, in order, the layers emitted for its input regions; there are as many
\* Input layers as leaf regions and as many Product layers as partitions.
C19_LeafAndPartitionLayers ==
    ret.op = "from_region_graph"
        => \E sc \in {circuits[ret.circuit]} :
            /\ \A i \in DOMAIN ret.rg.nodes :
                  IsLeafRegion(ret.rg.nodes[i])
                      => /\ IsInputLayer(sc.layerObj[sc.layers[Emitted(ret.rg, i) - 1]])
                         /\ sc.layerObj[sc.layers[Emitted(ret.rg, i)]].kind = "Sum"
                         /\ sc.in_layers[sc.layers[Emitted(ret.rg, i)]]
                              = <<sc.layers[Emitted(ret.rg, i) - 1]>>
            /\ \A i \in DOMAIN ret.rg.nodes :
                  ret.rg.nodes[i].kind = "partition"
                      => /\ IsProdLayer(sc.layerObj[sc.layers[Emitted(ret.rg, i)]])
                         /\ sc.in_layers[sc.layers[Emitted(ret.rg, i)]]
                              = [k \in DOMAIN ret.rg.nodes[i].inputs |->
                                    sc.layers[Emitted(ret.rg, ret.rg.nodes[i].inputs[k])]]
            /\ Cardinality(InputLayersOf(sc))
                 = Cardinality({i \in DOMAIN ret.rg.nodes : IsLeafRegion(ret.rg.nodes[i])})
            /\ Cardinality(ProdLayersOf(sc))
                 = Cardinality({i \in DOMAIN ret.rg.nodes :
                                   ret.rg.nodes[i].kind = "partition"})

\* a circuit built from a region graph with several leaf regions and a
\* partition of two distinct regions
C19_Witness ==
    /\ ret.op = "from_region_graph"
    /\ \E i \in DOMAIN ret.rg.nodes :
          /\ ret.rg.nodes[i].kind = "partition"
          /\ Len(ret.rg.nodes[i].inputs) = 2
          /\ ret.rg.nodes[i].inputs[1] # ret.rg.nodes[i].inputs[2]
          /\ IsProdLayer(circuits[ret.circuit].layerObj[
                            circuits[ret.circuit].layers[Emitted(ret.rg, i)]])
    /\ Cardinality(InputLayersOf(circuits[ret.circuit])) >= 2

\* C20: from_region_graph emits a Mixing layer for a region exactly when the
\* region has two or more input partitions, its inputs being the products of
\* those partitions (so its arity is their number); a region with exactly one
\* input partition gets a plain Sum layer over the product of that partition,
\* and there is no other Mixing layer.
C20_MixingIffSeveralPartitions ==
    ret.op = "from_region_graph"
        => \E sc \in {circuits[ret.circuit]} :
            /\ \A i \in DOMAIN ret.rg.nodes :
                  IsInnerRegion(ret.rg.nodes[i])
                      => /\ sc.layerObj[sc.layers[Emitted(ret.rg, i)]].kind
                              = IF Len(ret.rg.nodes[i].inputs) >= 2
                                THEN "Mixing" ELSE "Sum"
                         /\ Len(sc.in_layers[sc.layers[Emitted(ret.rg, i)]])
                              = Len(ret.rg.nodes[i].inputs)
                         /\ sc.in_layers[sc.layers[Emitted(ret.rg, i)]]
                              = [k \in DOMAIN ret.rg.nodes[i].inputs |->
                                    sc.layers[Emitted(ret.rg, ret.rg.nodes[i].inputs[k])]]
                         /\ \A k \in DOMAIN ret.rg.nodes[i].inputs :
                              IsProdLayer(sc.layerObj[
                                 sc.in_layers[sc.layers[Emitted(ret.rg, i)]][k]])
            /\ MixingLayersOf(sc)
                 = {sc.layers[Emitted(ret.rg, i)] :
                      i \in {j \in DOMAIN ret.rg.nodes :
                               /\ IsInnerRegion(ret.rg.nodes[j])
                               /\ Len(ret.rg.nodes[j].inputs) >= 2}}

\* a circuit built from a region graph that has a region with two input
\* partitions and a region with one
C20_Witness ==
    /\ ret.op = "from_region_graph"
    /\ \E i, j \in DOMAIN ret.rg.nodes :
          /\ IsInnerRegion(ret.rg.nodes[i]) /\ Len(ret.rg.nodes[i].inputs) = 2
          /\ IsInnerRegion(ret.rg.nodes[j]) /\ Len(ret.rg.nodes[j].inputs) = 1
          /\ circuits[ret.circuit].layerObj[
                circuits[ret.circuit].layers[Emitted(ret.rg, i)]].kind = "Mixing"
          /\ circuits[ret.circuit].layerObj[
                circuits[ret.circuit].layers[Emitted(ret.rg, j)]].kind = "Sum"

\* C21: for any region graph, also one with several root regions or a root
\* that is a leaf, the Sum or Mixing layer emitted for a root region has
\* width num_classes and the one emitted for every other region has width
\* num_sum_units as passed by the caller.
C21_RegionLayerWidths ==
    ret.op = "from_region_graph"
        => \A i \in DOMAIN ret.rg.nodes :
              ret.rg.nodes[i].kind = "region"
                  => circuits[ret.circuit].layerObj[
                        circuits[ret.circuit].layers[Emitted(ret.rg, i)]].num_units
                       = IF i \in ret.rg.output_nodes
                         THEN ret.num_classes ELSE ret.num_sum_units

\* the layers that layer l reads according to in_layers (none without a key)
InLayersOf(sc, l) == IF l \in DOMAIN sc.in_layers THEN Range(sc.in_layers[l]) ELSE {}

\* C22: after from_region_graph, in_layers and out_layers are mutual
\* inverses: every value of out_layers is a list of layers, and P is in
\* in_layers[L] exactly when L is in out_layers[P], also when a region feeds
\* several partitions.
C22_InOutLayersAreInverse ==
    ret.op = "from_region_graph"
        => \E sc \in {circuits[ret.circuit]} :
            /\ \A p \in DOMAIN sc.out_layers : sc.out_layers[p].isList
            /\ \A p, l \in Range(sc.layers) :
                  p \in InLayersOf(sc, l)
                      <=> /\ OutLookup(sc, p).isList
                          /\ l \in Range(OutLookup(sc, p).list)

\* the region graphs from which from_region_graph builds the layers of sc:
\* the layer list, the classes and scopes of the layers and in_layers do not
\* depend on the unit counts
BuiltFrom(sc) ==
    {rg \in BuildGraphs :
        \E b \in {from_region_graph(rg, 1, 1, 1, 1)} :
            /\ sc.layers = b.layers
            /\ sc.in_layers = b.in_layers
            /\ DOMAIN sc.layerObj = DOMAIN b.layerObj
            /\ \A l \in DOMAIN sc.layerObj :
                  /\ sc.layerObj[l].kind = b.layerObj[l].kind
                  /\ sc.layerObj[l].scope = b.layerObj[l].scope}

\* the layers that no layer reads
WithoutReader(sc) ==
    {p \in Range(sc.layers) : \A l \in Range(sc.layers) : p \notin InLayersOf(sc, l)}

\* the Input layers emitted for the leaf regions of rg, in layer order
LeafInputs(sc, rg) ==
    SelectSeq(sc.layers,
              LAMBDA l : l \in {sc.layers[Emitted(rg, i) - 1] :
                                  i \in {j \in DOMAIN rg.nodes : IsLeafRegion(rg.nodes[j])}})

\* the last call read a view: in one go, or one more step of it
ViewRead == ret.op \in {"view", "next"}

\* the read of the last call has come to the end of the view
ReadToEnd == ret.op = "view" \/ (ret.op = "next" /\ ret.tag = "StopIteration")

\* the layers read up to now are the first of list, and all of it at the end
ReadOf(list) ==
    /\ ret.tag = IF ret.op = "next" /\ ReadToEnd THEN "StopIteration" ELSE "ok"
    /\ Len(ret.list) <= Len(list)
    /\ ret.list = SubSeq(list, 1, Len(ret.list))
    /\ ReadToEnd => ret.list = list

\* C23: for a circuit built from a region graph, input_layers yields exactly
\* one Input layer per leaf region and nothing else, and output_layers yields
\* exactly the layers with no outgoing edge: one layer per root region, each
\* of them a Sum layer; read in one go or step by step, with other reads of
\* the circuit between the steps.
C23_InputAndOutputViews ==
    ViewRead
        => \A rg \in BuiltFrom(circuits[ret.circuit]) :
            \E sc \in {circuits[ret.circuit]} :
              /\ ret.view = "input_layers"
                    => /\ ReadOf(LeafInputs(sc, rg))
                       /\ \A k \in DOMAIN ret.list :
                             IsInputLayer(sc.layerObj[ret.list[k]])
              /\ ret.view = "output_layers"
                    => /\ ReadOf(SelectSeq(sc.layers, LAMBDA l : l \in WithoutReader(sc)))
                       /\ Range(ret.list)
                            \subseteq {sc.layers[Emitted(rg, i)] : i \in rg.output_nodes}
                       /\ ReadToEnd => Len(ret.list) = Cardinality(rg.output_nodes)
                       /\ \A k \in DOMAIN ret.list :
                             IsSumLayer(sc.layerObj[ret.list[k]])

\* output_layers read on a circuit built from a graph with two root regions
\* and read step by step to the end
C23_Witness ==
    /\ ret.op = "next"
    /\ ret.view = "output_layers"
    /\ ret.tag = "StopIteration"
    /\ Len(ret.list) = 2
    /\ \E rg \in BuiltFrom(circuits[ret.circuit]) :
          Cardinality(rg.output_nodes) = 2

\* C28: a circuit is not mutated after construction: reading a layer view,
\* in one go or step by step, or calling layers_topological_ordering leaves
\* the layer list and the in_layers and out_layers maps, their key sets and
\* their values, as they were.
C28_ViewsLeaveCircuitUnchanged ==
    [][ret'.op \in {"view", "iter", "next", "layers_topological_ordering"}
          => \A c \in DOMAIN circuits :
                /\ c \in DOMAIN circuits'
                /\ circuits'[c].layers = circuits[c].layers
                /\ circuits'[c].in_layers = circuits[c].in_layers
                /\ DOMAIN circuits'[c].out_layers = DOMAIN circuits[c].out_layers
                /\ circuits'[c].out_layers = circuits[c].out_layers]_vars

\* C29: for every circuit built by from_region_graph, inner_layers yields
\* exactly the layers that are no Input layer, in layer order; Input layers
\* are skipped and raise no error.
C29_InnerLayersSkipInputs ==
    (/\ ViewRead
     /\ ret.view = "inner_layers"
     /\ BuiltFrom(circuits[ret.circuit]) # {})
        => ReadOf(SelectSeq(circuits[ret.circuit].layers,
                     LAMBDA l : ~IsInputLayer(circuits[ret.circuit].layerObj[l])))

(***************************************************************************)
(* RGNode (new/region_graph/rg_node.py).  A node has a scope, a class and  *)
(* a metadata dict that may hold a sort_key.  Nodes are compared as the    *)
(* tuples (scope, class name, sort_key or -1).                             *)
(***************************************************************************)
\* Number of variables a scope is drawn from.
MaxVar == 2

\* Largest sort_key.
MaxKey == 1

RGNode(class, scope, metadata) ==
    [class |-> class, scope |-> scope, metadata |-> metadata]

\* tuple(scope): the variables in increasing order
RECURSIVE ScopeTuple(_)
ScopeTuple(scope) ==
    IF scope = {} THEN <<>>
    ELSE LET least == CHOOSE v \in scope : \A w \in scope : v <= w
         IN  <<least>> \o ScopeTuple(scope \ {least})

\* a < b for tuples of integers
RECURSIVE TupleLess(_, _)
TupleLess(a, b) ==
    IF b = <<>> THEN FALSE
    ELSE IF a = <<>> THEN TRUE
    ELSE IF Head(a) # Head(b) THEN Head(a) < Head(b)
    ELSE TupleLess(Tail(a), Tail(b))

\* Scope.__lt__: the shorter scope is smaller, scopes of one length compare
\* as tuples
ScopeLess(a, b) ==
    \/ Cardinality(a) < Cardinality(b)
    \/ Cardinality(a) = Cardinality(b) /\ TupleLess(ScopeTuple(a), ScopeTuple(b))

\* a < b for the class names "PartitionNode" and "RegionNode": the names
\* differ in their first character, ord("P") = 80 and ord("R") = 82
NameLess(a, b) ==
    (IF a = "PartitionNode" THEN 80 ELSE 82) < (IF b = "PartitionNode" THEN 80 ELSE 82)

\* self._metadata.get("sort_key", -1)
SortKey(node) ==
    IF "sort_key" \in DOMAIN node.metadata THEN node.metadata.sort_key ELSE -1

\* __lt__ with RegionNode below PartitionNode
lt_region_first(self, other) ==
    IF self.scope # other.scope THEN ScopeLess(self.scope, other.scope)
    ELSE IF self.class # other.class THEN NameLess(other.class, self.class)
    ELSE SortKey(self) < SortKey(other)

\* __lt__ that does not look at sort_key
lt_without_key(self, other) ==
    IF self.scope # other.scope THEN ScopeLess(self.scope, other.scope)
    ELSE IF self.class # other.class THEN NameLess(self.class, other.class)
    ELSE FALSE

\* RGNode.__lt__(self, other): the comparison of two tuples goes by the
\* first component in which they differ
__lt__(self, other) ==
    IF self.scope # other.scope THEN ScopeLess(self.scope, other.scope)
    ELSE IF self.class # other.class THEN NameLess(self.class, other.class)
    ELSE SortKey(self) < SortKey(other)

\* the RGNode of a node of a region graph
NodeOf(rg, i) ==
    RGNode(IF rg.nodes[i].kind = "partition" THEN "PartitionNode" ELSE "RegionNode",
           rg.nodes[i].scope, <<>>)

\* list.sort places an item before the items it is less than, and after the
\* items equal to it that came earlier
RECURSIVE InsertNode(_, _, _)
InsertNode(rg, sorted, i) ==
    IF sorted # <<>> /\ __lt__(NodeOf(rg, i), NodeOf(rg, sorted[Len(sorted)]))
    THEN Append(InsertNode(rg, SubSeq(sorted, 1, Len(sorted) - 1), i),
                sorted[Len(sorted)])
    ELSE Append(sorted, i)

\* sorted(nodes) for the nodes of rg listed in some order
RECURSIVE sorted(_, _)
sorted(rg, order) ==
    IF order = <<>> THEN <<>>
    ELSE InsertNode(rg, sorted(rg, SubSeq(order, 1, Len(order) - 1)),
                    order[Len(order)])

Scopes == (SUBSET (0..(MaxVar - 1))) \ {{}}

Metadata == {<<>>} \cup {[sort_key |-> k] : k \in 0..MaxKey}

RGNodes ==
    {RGNode(class, scope, metadata) :
        class \in {"PartitionNode", "RegionNode"}, scope \in Scopes,
        metadata \in Metadata}

\* the nodes of a graph of n nodes, listed from some node on, forwards or
\* backwards
NodeOrders(n) ==
    {[k \in 1..n |-> ((k + shift) % n) + 1] : shift \in 0..(n - 1)}
      \cup {[k \in 1..n |-> n - ((k + shift) % n)] : shift \in 0..(n - 1)}

Compared(self, other, result) ==
    [op |-> "__lt__", self |-> self, other |-> other, result |-> result]

Sorted(rg, order, result) ==
    [op |-> "sorted", rg |-> rg, order |-> order, result |-> result]

(***************************************************************************)
(* SpecOrder: nodes are compared, and the nodes of region graphs sorted.   *)
(***************************************************************************)
InitOrder ==
    /\ circuits = <<>>
    /\ ctx = <<>>
    /\ lowerings = <<>>
    /\ iterators = <<>>
    /\ registry = NoRegistry
    /\ ambient = NoAmbient
    /\ ret = NoCall

\* a < b
Compare ==
    \E a \in RGNodes, b \in RGNodes :
        /\ ret' = Compared(a, b, __lt__(a, b))
        /\ UNCHANGED <<circuits, ctx, lowerings, registry, ambient, iterators>>

\* sorted(nodes)
SortNodes ==
    \E rg \in BuildGraphs :
      \E order \in NodeOrders(Len(rg.nodes)) :
        /\ ret' = Sorted(rg, order, sorted(rg, order))
        /\ UNCHANGED <<circuits, ctx, lowerings, registry, ambient, iterators>>

NextOrder == Compare \/ SortNodes

SpecOrder == InitOrder /\ [][NextOrder]_vars

\* the place of node i in a list of nodes
PlaceOf(list, i) == CHOOSE k \in DOMAIN list : list[k] = i

\* C24: the order of RGNode gives a topological layering: a region R that is
\* an input of a partition P (the scope of R a proper subset of that of P)
\* has R < P, a partition P that is an input of a region R (equal scopes) has
\* P < R, and sorting the nodes of a region graph by this order places every
\* node after all of its inputs.
C24_OrderIsTopological ==
    /\ ret.op = "__lt__"
          => /\ (/\ ret.self.class = "RegionNode"
                 /\ ret.other.class = "PartitionNode"
                 /\ ret.self.scope \subseteq ret.other.scope
                 /\ ret.self.scope # ret.other.scope)
                    => ret.result
             /\ (/\ ret.self.class = "PartitionNode"
                 /\ ret.other.class = "RegionNode"
                 /\ ret.self.scope = ret.other.scope)
                    => ret.result
    /\ ret.op = "sorted"
          => /\ Range(ret.result) = DOMAIN ret.rg.nodes
             /\ Len(ret.result) = Len(ret.rg.nodes)
             /\ \A i \in DOMAIN ret.rg.nodes :
                   \A j \in Range(ret.rg.nodes[i].inputs) :
                       PlaceOf(ret.result, j) < PlaceOf(ret.result, i)

\* the nodes of a graph with a region of two partitions, listed last node
\* first, have been sorted
C24_Witness ==
    /\ ret.op = "sorted"
    /\ ret.rg = RGMix
    /\ ret.order = [k \in 1..Len(RGMix.nodes) |-> Len(RGMix.nodes) + 1 - k]
    /\ ret.result # ret.order

\* C25: __lt__ is a strict order (irreflexive, asymmetric, transitive) that
\* compares scope first, then the kind with PartitionNode below RegionNode,
\* then sort_key; of two distinct nodes of equal scope and kind with distinct
\* sort keys exactly one is below the other, and of two such nodes without
\* sort keys neither is.
C25_StrictOrder ==
    ret.op = "__lt__"
        => /\ ~__lt__(ret.self, ret.self)
           /\ ret.result => ~__lt__(ret.other, ret.self)
           /\ \A c \in RGNodes :
                 (ret.result /\ __lt__(ret.other, c)) => __lt__(ret.self, c)
           /\ ret.self.scope # ret.other.scope
                 => (ret.result <=> ScopeLess(ret.self.scope, ret.other.scope))
           /\ (ret.self.scope = ret.other.scope /\ ret.self.class # ret.other.class)
                 => (ret.result <=> ret.self.class = "PartitionNode")
           /\ (ret.self.scope = ret.other.scope /\ ret.self.class = ret.other.class)
                 => /\ SortKey(ret.self) # SortKey(ret.other)
                        => (ret.result <=> ~__lt__(ret.other, ret.self))
                    /\ (ret.self.metadata = <<>> /\ ret.other.metadata = <<>>)
                        => ~ret.result /\ ~__lt__(ret.other, ret.self)

\* two nodes of equal scope and kind with distinct sort keys were compared,
\* the first being below the second
C25_Witness ==
    /\ ret.op = "__lt__"
    /\ ret.self.scope = ret.other.scope
    /\ ret.self.class = ret.other.class
    /\ ret.self.metadata # <<>>
    /\ ret.other.metadata # <<>>
    /\ SortKey(ret.self) < SortKey(ret.other)
    /\ ret.result

\* C26: the pipeline ordering is deterministic: pipeline_topological_ordering
\* on the same roots gives the same circuit order again, whatever the order
\* in which the set of roots is iterated.
C26_OrderingIndependentOfRootIteration ==
    (ret.op = "pipeline_topological_ordering" /\ ret.tag = "ok")
        => \A rootSeq \in IterationOrders(ret.roots) :
              /\ pipeline_topological_ordering(rootSeq).tag = "ok"
              /\ pipeline_topological_ordering(rootSeq).ordering = ret.ordering

----------------------------------------------------------------------------
(***************************************************************************)
(* The pipeline loop and the context lookups of compile_input_layer (Spec).*)
(***************************************************************************)

\* the context of the last compile_pipeline call when it came to the k-th
\* circuit it lowered: the entry context and the circuits lowered before
ContextAt(k) ==
    [sc \in DOMAIN ret.ctx1 |->
        IF \E i \in k..Len(ret.lowered) : ret.lowered[i] = sc
        THEN ret.ctx0[sc] ELSE ret.ctx1[sc]]

\* every operand circuit of circuit c is registered in context cx, and the
\* lookup of compile_input_layer finds the operand layer of every Input layer
\* of c with INTEGRATION provenance
OperandsRegistered(cx, c) ==
    /\ \A j \in DOMAIN Operands[c] : Contains(cx, Operands[c][j])
    /\ \A l \in Range(circuits[c].layers) :
          (IsInputLayer(circuits[c].layerObj[l]) /\ HasProvenance(c, l, {"INTEGRATION"}))
             => get_materialized_layer(cx, circuits[c].operation.operands[1],
                    circuits[c].layerObj[l].operation.operands[1]).tag = "ok"

\* C27: in a compile_pipeline call, when compile_circuit is called on a
\* circuit, whether the lowering succeeds or fails, every operand circuit of
\* it is registered in the context, so that the lookup of the operand layer
\* for an Input layer with INTEGRATION provenance finds it.
C27_OperandsRegisteredWhenLowered ==
    ret.op = "compile_pipeline" =>
        /\ \A k \in DOMAIN ret.lowered : OperandsRegistered(ContextAt(k), ret.lowered[k])
        /\ ret.failed # 0 => OperandsRegistered(ret.ctx1, ret.failed)

C27_Witness ==
    /\ ret.op = "compile_pipeline" /\ ret.tag = "ok" /\ ret.roots = {1}
    /\ circuits[1].operation = OperationOn(<<2>>)
    /\ circuits[2].operation = NoOperation
    /\ HasProvenance(1, 1, {"INTEGRATION"}) /\ IsInputLayer(circuits[1].layerObj[1])
    /\ ~Contains(ret.ctx0, 1) /\ ~Contains(ret.ctx0, 2)
    /\ ret.lowered = <<2, 1>>
    /\ ~Contains(ContextAt(1), 2) /\ Contains(ContextAt(2), 2)

----------------------------------------------------------------------------
(***************************************************************************)
(* Symbolic parameters (symbolic/params.py).  A shape is a tuple of        *)
(* dimensions; an operand is a Parameter, given by its shape.              *)
(***************************************************************************)
\* Largest number of dimensions of an operand.
MaxRank == 2

\* Largest dimension.
MaxDim == 2

\* Largest number of operands of a StackOpParameter.
MaxOpds == 2

\* Parameter(*shape)
Parameter(dims) == [shape |-> dims]

\* t[:k] for 0 <= k
Prefix(t, k) == SubSeq(t, 1, IF k < Len(t) THEN k ELSE Len(t))

\* t[k:] for 0 <= k
Suffix(t, k) == SubSeq(t, k + 1, Len(t))

\* StackOpParameter(*opds, axis=axis): the object, or the failed assertion
StackOpParameter(opds, axis) ==
    IF Cardinality({opds[i].shape : i \in DOMAIN opds}) # 1
    THEN [tag |-> "AssertionError", opds |-> opds, axis |-> axis]
    ELSE LET axis1 == IF axis >= 0 THEN axis ELSE axis + Len(opds[1].shape)
         IN  IF ~(0 <= axis1 /\ axis1 < Len(opds[1].shape))
             THEN [tag |-> "AssertionError", opds |-> opds, axis |-> axis1]
             ELSE [tag |-> "ok", opds |-> opds, axis |-> axis1]

\* StackOpParameter.shape
shape(self) ==
    Prefix(self.opds[1].shape, self.axis) \o <<Len(self.opds)>>
        \o Prefix(self.opds[1].shape, self.axis)

Shapes == UNION {[1..rank -> 1..MaxDim] : rank \in 0..MaxRank}

OperandLists == UNION {[1..n -> {Parameter(dims) : dims \in Shapes}] : n \in 0..MaxOpds}

\* no parameter object yet
NoParameter == [tag |-> "none", opds |-> <<>>, axis |-> 0]

Stacked(opds, axis, self, dims) ==
    [op |-> "StackOpParameter", opds |-> opds, axis |-> axis, tag |-> self.tag,
     self |-> self, shape |-> dims]

(***************************************************************************)
(* SpecParams: a StackOpParameter is built over operands of every shape    *)
(* and with every axis, and its shape read.                                *)
(***************************************************************************)
\* the operands and the axis are chosen; the call is still to be made
InitParams ==
    /\ circuits = <<>>
    /\ ctx = <<>>
    /\ lowerings = <<>>
    /\ iterators = <<>>
    /\ registry = NoRegistry
    /\ ambient = NoAmbient
    /\ \E opds \in OperandLists, axis \in (0 - MaxRank - 1)..MaxRank :
          ret = Stacked(opds, axis, NoParameter, <<>>)

\* p = StackOpParameter(*opds, axis=axis); p.shape
StackOp ==
    /\ ret.tag = "none"
    /\ \E self \in {StackOpParameter(ret.opds, ret.axis)} :
          ret' = Stacked(ret.opds, ret.axis, self,
                         IF self.tag = "ok" THEN shape(self) ELSE <<>>)
    /\ UNCHANGED <<circuits, ctx, lowerings, registry, ambient, iterators>>

NextParams == StackOp

SpecParams == InitParams /\ [][NextParams]_vars

\* C30: a StackOpParameter is built exactly when there are operands, all of
\* one shape s, and the axis a, a negative one counted from the end, has
\* 0 <= a < len(s); its shape is then s[:a] + (n,) + s[a:] for n operands, of
\* len(s) + 1 dimensions with the dimensions of s in their order.
C30_StackShape ==
    (ret.op = "StackOpParameter" /\ ret.tag # "none") =>
        LET sameShape == /\ ret.opds # <<>>
                         /\ \A i \in DOMAIN ret.opds : ret.opds[i].shape = ret.opds[1].shape
            s == ret.opds[1].shape
            a == IF ret.axis >= 0 THEN ret.axis ELSE ret.axis + Len(s)
        IN  /\ ~sameShape => ret.tag = "AssertionError"
            /\ ret.tag = "ok" <=> (sameShape /\ 0 <= a /\ a < Len(s))
            /\ ret.tag = "ok" =>
                  /\ ret.shape = Prefix(s, a) \o <<Len(ret.opds)>> \o Suffix(s, a)
                  /\ Len(ret.shape) = Len(s) + 1

====
